---- MODULE Spec2Model ----
(***************************************************************************)
(* A model of the aggregation and caching core of mtg-mcp:                *)
(*   - the rate limiter        (mtg_mcp/utils.py, rate_limit_api_call)     *)
(*   - the three dataset caches (get_rules, get_banned_cards,              *)
(*     get_game_changers and the fetch functions behind them)              *)
(*   - the commander-deck validator and data gatherer                      *)
(*     (mtg_mcp/tools/commander.py, generate_commander_deck_data)          *)
(*   - the leaf clients (deck importers, combo and ruling searches), the   *)
(*     rules parser and search, the banned-card and game-changer fetches   *)
(*     and recommend_commander_cards, one call at a time                   *)
(* The server runs every tool call as a coroutine on one asyncio event     *)
(* loop: the code between two awaits is one atomic step, and a coroutine   *)
(* that awaits (asyncio.sleep, an HTTP response) lets the others run.      *)
(* Time is the value of time.time() in milliseconds.                       *)
(***************************************************************************)
EXTENDS Integers, Sequences, FiniteSets, TLC

\* ------------------------------------------------------------------ bounds
MaxTicks == 3      \* the clock stops after this many ticks
ClockStart == 1000 \* time.time() at process start (the epoch is long past)
MaxCalls == 3      \* accessor calls in a run
MaxPages == 2      \* pages of the banned-card search
MaxEntries == 1    \* entries of the game-changer list

\* --------------------------------------------------------- program constants
api_rate_limit_ms == 100

\* granularity of the modelled clock: two ticks to the rate-limit interval
TickMs == api_rate_limit_ms \div 2

\* Python's None, as a payload that no fetch returns
None == [ds |-> "none", fid |-> 0, error |-> FALSE]

Tasks == {"t1", "t2"}      \* concurrent tool calls
DirectApis == {"scryfall", "moxfield"}
Datasets == {"rules", "banned", "game_changers"}

\* An HTTP exchange: the transport raises, or a response with a status arrives.
Responses ==
    {[raised |-> TRUE, status |-> 0]} \cup
    {[raised |-> FALSE, status |-> s] : s \in {200, 404, 500}}

VARIABLES
    now,                 \* time.time(), in ms
    last_api_call_time,  \* _last_api_call_time: api name -> stamp
    caches,              \* _rules_cache, _banned_cards_cache, _game_changers_cache
    task,                \* each coroutine's position and locals
    \* ---- observers (not program state)
    own_stamp,           \* task -> its latest rate_limit_api_call return: [api, at],
                         \*   n flips at each return, prev is the return before it
                         \*   when that was for the same api (0 otherwise)
    fetch_count,         \* dataset -> times its fetch function was started
    calls,               \* dataset -> accessor calls begun
    requests,            \* HTTP requests issued
    returned,            \* the payload the latest accessor call to return has returned
    first_payload,       \* dataset -> the payload of the first fetch that finished
    \* ---- generate_commander_deck_data: its arguments, locals and return value
    deck,
    \* ---- the call of a leaf client or parser in progress: tool, argument,
    \*      position and return value
    call

vars == <<now, last_api_call_time, caches, task, own_stamp,
          fetch_count, calls, requests, returned, first_payload, deck, call>>

limiter == <<last_api_call_time, own_stamp>>
cachest == <<caches, fetch_count, calls, returned, first_payload>>

IdleTask == [pc |-> "idle", op |-> "none", api |-> "none", wake |-> 0, left |-> 0, fid |-> 0]

\* The coroutine that runs generate_commander_deck_data, and its position when
\* a function it awaited has returned to it.
DeckTask == "t1"
ReadyTask == [IdleTask EXCEPT !.pc = "ready"]
Resumed(t) ==
    IF \/ deck.phase \notin {"none", "done"} /\ t = DeckTask
       \/ call.phase \in {"banned", "brackets", "search"} /\ t = DeckTask
    THEN ReadyTask ELSE IdleTask

\* ------------------------------------------------------------ rate limiter

\* _last_api_call_time.get(api_name, 0)
LastCall(a) == IF a \in DOMAIN last_api_call_time THEN last_api_call_time[a] ELSE 0

SleepTimeNone(a) == 0

\* lines 27-31: the time still to wait, 0 when the last stamp is old enough
SleepTime(a) ==
    LET time_since_last_call == now - LastCall(a)
    IN  IF time_since_last_call < api_rate_limit_ms
        THEN api_rate_limit_ms - time_since_last_call
        ELSE 0

StampGlobal(t, a) ==
    /\ last_api_call_time' = [x \in DOMAIN last_api_call_time \cup {a} |-> now]
    /\ own_stamp' = [own_stamp EXCEPT ![t] =
          [api |-> a, at |-> now, n |-> 1 - own_stamp[t].n,
           prev |-> IF own_stamp[t].api = a THEN own_stamp[t].at ELSE 0]]

\* line 35: _last_api_call_time[api_name] = time.time()
Stamp(t, a) ==
    /\ last_api_call_time' =
          [x \in DOMAIN last_api_call_time \cup {a} |->
              IF x = a THEN now ELSE last_api_call_time[x]]
    /\ own_stamp' = [own_stamp EXCEPT ![t] =
          [api |-> a, at |-> now, n |-> 1 - own_stamp[t].n,
           prev |-> IF own_stamp[t].api = a THEN own_stamp[t].at ELSE 0]]

\* Where the caller goes on once rate_limit_api_call has returned: a direct call
\* is over, a fetch function issues its HTTP request and awaits the response.
AfterRateLimit(rec) ==
    IF rec.op = "rate_limit"
    THEN IdleTask
    ELSE [rec EXCEPT !.pc = "request", !.api = "none", !.wake = 0]

Issued(rec) == IF rec.op = "rate_limit" THEN 0 ELSE 1

RateLimitApiCallSkipped(t, a, rec) ==
    /\ task' = [task EXCEPT ![t] = AfterRateLimit(rec)]
    /\ requests' = requests + Issued(rec)
    /\ UNCHANGED limiter

\* rate_limit_api_call up to its first suspension: it either stamps at once and
\* returns to its caller (which issues its request), or starts
\* asyncio.sleep(sleep_time).
RateLimitApiCall(t, a, rec) ==
    IF SleepTime(a) > 0
    THEN /\ task' = [task EXCEPT ![t] =
                [rec EXCEPT !.pc = "sleep", !.api = a, !.wake = now + SleepTime(a)]]
         /\ UNCHANGED <<limiter, requests>>
    ELSE /\ task' = [task EXCEPT ![t] = AfterRateLimit(rec)]
         /\ Stamp(t, a)
         /\ requests' = requests + Issued(rec)

\* A tool call that is a bare rate_limit_api_call(a)
CallRateLimit(t, a) ==
    /\ task[t].pc = "idle"
    /\ RateLimitApiCall(t, a, [IdleTask EXCEPT !.op = "rate_limit"])
    /\ UNCHANGED <<now, cachest, deck, call>>

\* asyncio.sleep is over: the coroutine resumes, stamps and returns
Wake(t) ==
    /\ task[t].pc = "sleep"
    /\ now >= task[t].wake
    /\ Stamp(t, task[t].api)
    /\ task' = [task EXCEPT ![t] = AfterRateLimit(task[t])]
    /\ requests' = requests + Issued(task[t])
    /\ UNCHANGED <<now, cachest, deck, call>>

Tick ==
    /\ now < ClockStart + MaxTicks * TickMs
    /\ now' = now + TickMs
    /\ UNCHANGED <<task, limiter, cachest, requests, deck, call>>

\* ------------------------------------------------------------------ caches

Payload(d, id, err) == [ds |-> d, fid |-> id, error |-> err]

CacheHitNever(d) == FALSE

CacheHitUnlessError(d) == caches[d] # None /\ ~caches[d].error

\* `if _rules_cache is None` (and its two siblings), negated
CacheHit(d) == caches[d] # None

StoredNothing(payload) == None

StoredUnlessError(payload) == IF payload.error THEN None ELSE payload

\* the value the accessor assigns to its cache variable
Stored(payload) == payload

\* `_x_cache = await fetch_x(); return _x_cache` once fetch_x has returned
Finish(t, payload) ==
    LET d == payload.ds
    IN  /\ caches' = [caches EXCEPT ![d] = Stored(payload)]
        /\ returned' = caches'[d]
        /\ first_payload' =
              [first_payload EXCEPT ![d] = IF @ = None THEN payload ELSE @]
        /\ task' = [task EXCEPT ![t] = Resumed(t)]
        /\ UNCHANGED <<limiter, requests, fetch_count, calls>>

TotalCalls == calls["rules"] + calls["banned"] + calls["game_changers"]

\* get_rules / get_banned_cards / get_game_changers up to the first await
Accessor(t, d) ==
    /\ calls' = [calls EXCEPT ![d] = @ + 1]
    /\ UNCHANGED <<now, caches, first_payload>>
    /\ IF CacheHit(d)
       THEN /\ returned' = caches[d]
            /\ UNCHANGED <<task, limiter, requests, fetch_count>>
       ELSE /\ fetch_count' = [fetch_count EXCEPT ![d] = @ + 1]
            /\ UNCHANGED returned
            /\ LET rec == [IdleTask EXCEPT !.fid = fetch_count'[d]]
               IN  CASE d = "rules" ->
                          \* fetch_and_parse_rules: session.get(rules_url)
                          /\ task' = [task EXCEPT ![t] =
                                [rec EXCEPT !.pc = "request", !.op = "rules"]]
                          /\ requests' = requests + 1
                          /\ UNCHANGED limiter
                     [] d = "game_changers" ->
                          \* fetch_game_changers: session.get(url)
                          /\ task' = [task EXCEPT ![t] =
                                [rec EXCEPT !.pc = "request", !.op = "gc_list"]]
                          /\ requests' = requests + 1
                          /\ UNCHANGED limiter
                     [] d = "banned" ->
                          \* fetch_banned_cards: rate limit, then the first page
                          RateLimitApiCall(t, "scryfall", [rec EXCEPT !.op = "banned"])

\* A tool call that is one dataset accessor
GetCached(t, d) ==
    /\ task[t].pc = "idle"
    /\ TotalCalls < MaxCalls
    /\ Accessor(t, d)
    /\ UNCHANGED <<deck, call>>

\* fetch_and_parse_rules: the body is parsed whatever the status
RulesResponse(t, r) ==
    /\ task[t].pc = "request" /\ task[t].op = "rules"
    /\ Finish(t, Payload("rules", task[t].fid, r.raised))
    /\ UNCHANGED <<now, deck, call>>

\* fetch_banned_cards: one page of the search has arrived
BannedResponse(t, r, next_page) ==
    /\ task[t].pc = "request" /\ task[t].op = "banned"
    /\ next_page => task[t].left + 1 < MaxPages
    /\ UNCHANGED <<now, deck, call>>
    /\ IF r.raised \/ r.status # 200
       THEN Finish(t, Payload("banned", task[t].fid, TRUE))
       ELSE IF next_page
            THEN /\ RateLimitApiCall(t, "scryfall", [task[t] EXCEPT !.left = @ + 1])
                 /\ UNCHANGED cachest
            ELSE Finish(t, Payload("banned", task[t].fid, FALSE))

\* fetch_game_changers: the EDHREC list has arrived, n entries after de-duplication
GameChangersResponse(t, r, n) ==
    /\ task[t].pc = "request" /\ task[t].op = "gc_list"
    /\ UNCHANGED <<now, deck, call>>
    /\ IF r.raised \/ r.status # 200
       THEN Finish(t, Payload("game_changers", task[t].fid, TRUE))
       ELSE IF n > 0
            THEN /\ RateLimitApiCall(t, "scryfall",
                        [task[t] EXCEPT !.op = "gc_card", !.left = n])
                 /\ UNCHANGED cachest
            ELSE Finish(t, Payload("game_changers", task[t].fid, FALSE))

\* fetch_game_changers: one enrichment lookup is over, whatever its outcome
EnrichResponse(t, r) ==
    /\ task[t].pc = "request" /\ task[t].op = "gc_card"
    /\ UNCHANGED <<now, deck, call>>
    /\ IF task[t].left > 1
       THEN /\ RateLimitApiCall(t, "scryfall", [task[t] EXCEPT !.left = @ - 1])
            /\ UNCHANGED cachest
       ELSE Finish(t, Payload("game_changers", task[t].fid, FALSE))

\* ------------------------------------------------- commander deck validator
\* A text is the sequence of its words; `x in text` is a search for a run of
\* words, str.lower() maps each word to its lower-case form.

LowerWord ==
    ("Partner" :> "partner") @@ ("Choose" :> "choose") @@
    ("Background" :> "background") @@ ("Friends" :> "friends") @@
    ("Doctor's" :> "doctor's") @@ ("Pir" :> "pir") @@ ("Toothy" :> "toothy") @@
    ("Flying" :> "flying") @@ ("Add" :> "add") @@ ("Daretti" :> "daretti") @@
    ("High" :> "high") @@ ("Synergy" :> "synergy") @@ ("Cards" :> "cards") @@
    ("New" :> "new") @@ ("M" :> "m") @@ ("A" :> "a") @@
    ("Commander" :> "commander") @@ ("COMMANDER" :> "commander") @@ ("Ramp" :> "ramp")

Lower(text) ==
    [i \in 1 .. Len(text) |->
        IF text[i] \in DOMAIN LowerWord THEN LowerWord[text[i]] ELSE text[i]]

\* Python's `sub in text`
Contains(sub, text) ==
    \E i \in 0 .. (Len(text) - Len(sub)) : SubSeq(text, i + 1, i + Len(sub)) = sub

\* The cards Scryfall knows, by the name they are asked for
Card(n, ty, o) == [name |-> n, type_line |-> ty, oracle_text |-> o]

Catalog ==
    ("Pir" :> Card(<<"Pir">>, <<"Legendary", "Creature">>, <<"Partner", "with", "Toothy">>)) @@
    ("Toothy" :> Card(<<"Toothy">>, <<"Legendary", "Creature">>, <<"Partner", "with", "Pir">>)) @@
    ("Thrasios" :> Card(<<"Thrasios">>, <<"Legendary", "Creature">>, <<"Partner">>)) @@
    ("Tymna" :> Card(<<"Tymna">>, <<"Legendary", "Creature">>, <<"Flying", "Partner">>)) @@
    ("Atraxa" :> Card(<<"Atraxa">>, <<"Legendary", "Creature">>, <<"Flying">>)) @@
    ("Sol Ring" :> Card(<<"Sol", "Ring">>, <<"Artifact">>, <<"Add", "mana">>)) @@
    ("Daretti" :> Card(<<"Daretti">>, <<"Legendary", "Planeswalker">>,
                       <<"Daretti", "can", "be", "your", "commander">>))

QueryNames == DOMAIN Catalog \cup {"Unknown"}

MinBracket == 1
MaxBracket == 5
Brackets == {MinBracket - 1, MinBracket, MaxBracket, MaxBracket + 1}

MaxCommanders == 2
CommanderLists ==
    UNION {[1 .. n -> QueryNames] : n \in 0 .. MaxCommanders + 1}

NoResult ==
    [raised |-> FALSE, has_error |-> FALSE, error |-> "", valid |-> FALSE,
     errors |-> <<>>, commanders |-> <<>>, data |-> <<>>]

ErrorResult(msg) == [NoResult EXCEPT !.has_error = TRUE, !.error = msg]

NoDeck ==
    [phase |-> "none", commanders |-> <<>>, bracket |-> 0, cards |-> <<>>,
     validated |-> FALSE, result |-> NoResult]

BracketOKLoose(bracket) == bracket >= MinBracket - 1 /\ bracket <= MaxBracket

\* lines 623-624
BracketOK(bracket) == ~(bracket < MinBracket \/ bracket > MaxBracket)

\* lines 623-642: the error of the parameter checks, "" when they pass
ParamsError(commanders, bracket) ==
    IF ~BracketOK(bracket) THEN "Bracket must be between 1 and 5"
    ELSE IF Len(commanders) = 0 THEN "At least one commander must be provided"
    ELSE IF Len(commanders) > MaxCommanders THEN "Maximum of 2 commanders allowed"
    ELSE ""

\* lines 690-696
partner_keywords ==
    << <<"Partner">>, <<"Partner", "with">>, <<"Choose", "a", "Background">>,
       <<"Friends", "forever">>, <<"Doctor's", "companion">> >>

\* lines 723-728: the first keyword found in the lower-cased oracle text
PartnerType(oracle_text) ==
    LET oracle_lower == Lower(oracle_text)
        found == {k \in 1 .. Len(partner_keywords) :
                     Contains(Lower(partner_keywords[k]), oracle_lower)}
    IN  IF found = {} THEN <<>>
        ELSE partner_keywords[CHOOSE k \in found : \A j \in found : k <= j]

CanBeCommanderAny(card) == TRUE

\* lines 711-719
CanBeCommander(card) ==
    \/ Contains(<<"Legendary">>, card.type_line) /\ Contains(<<"Creature">>, card.type_line)
    \/ Contains(<<"can", "be", "your", "commander">>, Lower(card.oracle_text))

\* lines 699-730
CardInfo(card) ==
    [name |-> card.name, type_line |-> card.type_line,
     oracle_text |-> card.oracle_text,
     can_be_commander |-> CanBeCommander(card),
     partner_type |-> PartnerType(card.oracle_text)]

PartnerValidNoGeneric(cmd1, cmd2) ==
    \/ cmd1.partner_type = <<"Partner", "with">> /\ Contains(cmd2.name, cmd1.oracle_text)
    \/ cmd2.partner_type = <<"Partner", "with">> /\ Contains(cmd1.name, cmd2.oracle_text)
    \/ cmd1.partner_type = <<"Friends", "forever">>
          /\ cmd2.partner_type = <<"Friends", "forever">>

\* lines 741-764
PartnerValid(cmd1, cmd2) ==
    \/ cmd1.partner_type = <<"Partner", "with">> /\ Contains(cmd2.name, cmd1.oracle_text)
    \/ cmd2.partner_type = <<"Partner", "with">> /\ Contains(cmd1.name, cmd2.oracle_text)
    \/ cmd1.partner_type = <<"Partner">> /\ cmd2.partner_type = <<"Partner">>
    \/ cmd1.partner_type = <<"Choose", "a", "Background">>
          /\ Contains(<<"Background">>, cmd2.type_line)
    \/ cmd2.partner_type = <<"Choose", "a", "Background">>
          /\ Contains(<<"Background">>, cmd1.type_line)
    \/ cmd1.partner_type = <<"Friends", "forever">>
          /\ cmd2.partner_type = <<"Friends", "forever">>
    \/ cmd1.partner_type = <<"Doctor's", "companion">>
          /\ Contains(<<"Doctor">>, cmd2.type_line)
    \/ cmd2.partner_type = <<"Doctor's", "companion">>
          /\ Contains(<<"Doctor">>, cmd1.type_line)

Message(k, n) == [kind |-> k, name |-> n]

RECURSIVE EligibilityErrorsFirst(_)
EligibilityErrorsFirst(infos) ==
    IF infos = <<>> THEN <<>>
    ELSE IF Head(infos).can_be_commander THEN EligibilityErrorsFirst(Tail(infos))
    ELSE <<Message("not a legendary creature", Head(infos).name)>>

RECURSIVE EligibilityErrors(_)
EligibilityErrors(infos) ==
    IF infos = <<>> THEN <<>>
    ELSE (IF Head(infos).can_be_commander THEN <<>>
          ELSE <<Message("not a legendary creature", Head(infos).name)>>)
         \o EligibilityErrors(Tail(infos))

\* lines 688-770: validation_errors for the fetched cards
ValidationErrors(infos, count) ==
    EligibilityErrors(infos) \o
    (IF count = 2
     THEN (IF ~infos[1].can_be_commander \/ ~infos[2].can_be_commander
           THEN <<Message("Both cards must be able to be commanders", <<>>)>>
           ELSE <<>>) \o
          (IF ~PartnerValid(infos[1], infos[2])
           THEN <<Message("Commanders are not valid partners", <<>>)>>
           ELSE <<>>)
     ELSE <<>>)

DeckDone(t, res) ==
    /\ deck' = [deck EXCEPT !.phase = "done", !.result = res]
    /\ task' = [task EXCEPT ![t] = IdleTask]

\* lines 610-664: the call up to its first await
DeckCall(t, commanders, bracket) ==
    /\ t = DeckTask /\ task[t].pc = "idle" /\ deck.phase = "none"
    /\ UNCHANGED <<now, cachest, call>>
    /\ IF ParamsError(commanders, bracket) # ""
       THEN /\ deck' = [NoDeck EXCEPT !.phase = "done", !.commanders = commanders,
                           !.bracket = bracket,
                           !.result = ErrorResult(ParamsError(commanders, bracket))]
            /\ UNCHANGED <<task, limiter, requests>>
       ELSE /\ deck' = [NoDeck EXCEPT !.phase = "cards", !.commanders = commanders,
                           !.bracket = bracket]
            /\ RateLimitApiCall(t, "scryfall", [IdleTask EXCEPT !.op = "deck_card"])

\* lines 665-788: the answer to one commander lookup; after the last one the
\* validation runs
DeckCardResponse(t, r) ==
    LET query == deck.commanders[Len(deck.cards) + 1]
        cards == Append(deck.cards, Catalog[query])
        infos == [i \in 1 .. Len(cards) |-> CardInfo(cards[i])]
        errors == ValidationErrors(infos, Len(deck.commanders))
    IN  /\ task[t].pc = "request" /\ task[t].op = "deck_card"
        /\ (~r.raised /\ r.status = 200) => query \in DOMAIN Catalog
        /\ UNCHANGED <<now, cachest, call>>
        /\ IF r.raised
           THEN /\ DeckDone(t, ErrorResult("Failed to fetch commander information"))
                /\ UNCHANGED <<limiter, requests>>
           ELSE IF r.status = 404
           THEN /\ DeckDone(t, ErrorResult("Commander not found"))
                /\ UNCHANGED <<limiter, requests>>
           ELSE IF r.status # 200
           THEN /\ DeckDone(t, ErrorResult("Failed to fetch card information"))
                /\ UNCHANGED <<limiter, requests>>
           ELSE IF Len(cards) < Len(deck.commanders)
           THEN /\ deck' = [deck EXCEPT !.cards = cards]
                /\ RateLimitApiCall(t, "scryfall", task[t])
           ELSE IF errors # <<>>
           THEN /\ DeckDone(t, [NoResult EXCEPT !.commanders = infos, !.errors = errors])
                /\ UNCHANGED <<limiter, requests>>
           ELSE /\ deck' = [deck EXCEPT !.cards = cards, !.validated = TRUE,
                               !.phase = "rules",
                               !.result = [NoResult EXCEPT !.commanders = infos,
                                                           !.valid = TRUE]]
                /\ task' = [task EXCEPT ![t] = ReadyTask]
                /\ UNCHANGED <<limiter, requests>>

\* lines 795-811: get_rules_info() and get_commander_context(), which read the
\* three datasets through their accessors (rules.py:13, context.py:55-56)
DeckContext(t) ==
    /\ task[t].pc = "ready" /\ deck.phase \in Datasets
    /\ Accessor(t, deck.phase)
    /\ deck' = [deck EXCEPT !.phase =
                   CASE deck.phase = "rules" -> "game_changers"
                     [] deck.phase = "game_changers" -> "banned"
                     [] deck.phase = "banned" -> "commanders"]
    /\ UNCHANGED <<now, call>>

\* asyncio.sleep with no other coroutine runnable: the loop waits for the timer
Elapse(t) ==
    /\ task[t].pc \in {"sleep", "pause"}
    /\ now < task[t].wake
    /\ now' = task[t].wake
    /\ UNCHANGED <<task, limiter, cachest, requests, deck, call>>

SubFetchOutcomes == {"result", "error", "raise"}

WrappedNot(outcome) == outcome

\* lines 827-852: try: ... except Exception as e: {"error": str(e)}
Wrapped(outcome) == IF outcome = "raise" THEN "error" ELSE outcome

\* The clock and the stamps after a coroutine running alone has made
\* rate_limit_api_call for each of `apis` in turn
RECURSIVE RateLimited(_, _, _)
RateLimited(apis, clock, stamps) ==
    IF apis = <<>> THEN [clock |-> clock, stamps |-> stamps]
    ELSE LET a == Head(apis)
             since == clock - (IF a \in DOMAIN stamps THEN stamps[a] ELSE 0)
             at == IF since < api_rate_limit_ms
                   THEN clock + (api_rate_limit_ms - since) ELSE clock
         IN  RateLimited(Tail(apis), at,
                 [x \in DOMAIN stamps \cup {a} |-> IF x = a THEN at ELSE stamps[x]])

\* lines 816-854 and 929-931: recommendations, combos and rulings for the next
\* commander; after the last commander the call returns
DeckGather(t, recs, combos, rulings) ==
    LET i == Len(deck.result.data) + 1
        entry == [name |-> deck.result.commanders[i].name,
                  recommendations |-> Wrapped(recs),
                  combos |-> Wrapped(combos),
                  rulings |-> Wrapped(rulings)]
        after == RateLimited(<<"scryfall", "commanderspellbook", "scryfall">>,
                             now, last_api_call_time)
        res == [deck.result EXCEPT !.data = Append(@, entry)]
    IN  /\ task[t].pc = "ready" /\ deck.phase = "commanders"
        /\ now' = after.clock
        /\ last_api_call_time' = after.stamps
        /\ own_stamp' = [own_stamp EXCEPT ![t] =
              [api |-> "scryfall", at |-> after.clock, n |-> 1 - @.n, prev |-> 0]]
        /\ requests' = requests + 3
        /\ UNCHANGED <<cachest, call>>
        /\ IF "raise" \in {entry.recommendations, entry.combos, entry.rulings}
           THEN DeckDone(t, [NoResult EXCEPT !.raised = TRUE])
           ELSE IF i = Len(deck.commanders)
           THEN DeckDone(t, res)
           ELSE /\ deck' = [deck EXCEPT !.result = res]
                /\ UNCHANGED task

\* ------------------------------------------------------------ leaf clients
\* fetch_archidekt_deck, fetch_moxfield_deck, search_combos and search_rulings,
\* one call running alone.  A URL is the sequence of its parts.

ClientTask == "t1"
ImportTools == {"archidekt", "moxfield"}
SearchTools == {"combos", "rulings"}

Digits == {"7"}
Letters == {"a"}

\* archidekt.py:26 (\d+), moxfield.py:26 ([a-zA-Z0-9_-]+)
IdChars(tool) == IF tool = "archidekt" THEN Digits ELSE Digits \cup Letters

\* archidekt\.com, moxfield\.com
Host(tool) == IF tool = "archidekt" THEN "archidekt.com" ELSE "moxfield.com"

\* the position after  https?://(?:www\.)?  when that starts at i
AfterScheme(url, i) == IF i + 1 <= Len(url) /\ url[i + 1] = "www." THEN i + 2 ELSE i + 1

\* the pattern matches at position i of the input
MatchAt(tool, url, i) ==
    LET j == AfterScheme(url, i)
    IN  /\ url[i] \in {"http://", "https://"}
        /\ j + 2 <= Len(url)
        /\ url[j] = Host(tool)
        /\ url[j + 1] = "/decks/"
        /\ url[j + 2] \in IdChars(tool)

\* re.search(...).group(1): the identifier of the leftmost match, as long as it
\* can be; <<>> when there is no match anywhere in the input
DeckId(tool, url) ==
    LET starts == {i \in 1 .. Len(url) : MatchAt(tool, url, i)}
    IN  IF starts = {} THEN <<>>
        ELSE LET i == CHOOSE x \in starts : \A y \in starts : x <= y
                 k == AfterScheme(url, i) + 2
                 e == CHOOSE x \in k .. Len(url) :
                          /\ \A y \in k .. x : url[y] \in IdChars(tool)
                          /\ x = Len(url) \/ url[x + 1] \notin IdChars(tool)
             IN  SubSeq(url, k, e)

RejectsUrlNever(tool, url) == FALSE

\* `if not match:`
RejectsUrl(tool, url) == DeckId(tool, url) = <<>>

MaxIdLen == 2
Ids == UNION {[1 .. n -> Digits \cup Letters] : n \in 0 .. MaxIdLen}

\* the deck_url arguments tried
Urls ==
    {pre \o sch \o www \o <<host, path>> \o id \o suf :
        pre \in {<<>>, <<"https://", "evil.com", "/?u=">>},
        sch \in {<<>>, <<"http://">>, <<"https://">>, <<"ftp://">>},
        www \in {<<>>, <<"www.">>},
        host \in {"archidekt.com", "moxfield.com", "evil.com"},
        path \in {"/decks/", "/deck/"},
        id \in Ids,
        suf \in {<<>>, <<"/name">>}}

MaxResults == 6
ClientResponses ==
    [raised : {TRUE}, status : {0}, client_error : BOOLEAN, results : {0}, has_id : {FALSE}]
    \cup [raised : {FALSE}, status : {404, 500}, client_error : {FALSE},
          results : {0}, has_id : {FALSE}]
    \cup [raised : {FALSE}, status : {200}, client_error : {FALSE},
          results : 0 .. MaxResults, has_id : BOOLEAN]

NoReply ==
    [error |-> "", status |-> 0, details |-> FALSE, deck_id |-> <<>>,
     items |-> <<>>, names |-> <<>>, total |-> 0, sections |-> <<>>,
     context |-> FALSE]

Failed(msg) == [NoReply EXCEPT !.error = msg]

NoCall ==
    [tool |-> "none", arg |-> <<>>, phase |-> "none", stage |-> 0, seen |-> <<>>,
     lookups |-> <<>>, include_context |-> FALSE,
     response |-> [raised |-> FALSE, status |-> 0, client_error |-> FALSE,
                   results |-> 0, has_id |-> FALSE],
     result |-> NoReply]

\* The error object a client returns for a response that is not a 200, or for
\* an exception raised inside its try block
FailureReply(tool, stage, r) ==
    IF tool \in ImportTools
    THEN IF r.raised
         THEN [Failed(IF r.client_error THEN "Network error while fetching deck"
                      ELSE "Unexpected error while fetching deck")
                  EXCEPT !.details = TRUE]
         ELSE IF r.status = 404 THEN Failed("Deck not found")
         ELSE [Failed("Failed to fetch deck from API") EXCEPT !.status = r.status]
    ELSE IF tool = "combos"
    THEN IF r.raised
         THEN [Failed("Failed to fetch combos") EXCEPT !.details = TRUE]
         ELSE [Failed("Failed to fetch combos") EXCEPT !.status = r.status]
    ELSE IF r.raised
         THEN [Failed("Failed to fetch rulings") EXCEPT !.details = TRUE]
         ELSE [Failed(IF stage = 1 THEN "Card not found" ELSE "Could not fetch rulings")
                  EXCEPT !.status = r.status]

ClientDone(t, r, reply) ==
    /\ call' = [call EXCEPT !.phase = "done", !.response = r, !.result = reply]
    /\ task' = [task EXCEPT ![t] = IdleTask]

RateLimitName(tool) ==
    CASE tool = "combos" -> "commanderspellbook"
      [] tool = "rulings" -> "scryfall"
      [] OTHER -> tool

\* A tool call up to its first await: the deck importers look at the URL
\* first, the search tools go straight to rate_limit_api_call.
ClientCall(t, tool, arg) ==
    /\ t = ClientTask /\ task[t].pc = "idle"
    /\ call.phase = "none" /\ deck.phase = "none"
    /\ UNCHANGED <<now, cachest, deck>>
    /\ IF tool \in ImportTools /\ RejectsUrl(tool, arg)
       THEN /\ call' = [NoCall EXCEPT !.tool = tool, !.arg = arg, !.phase = "done",
                           !.result = Failed("Invalid URL")]
            /\ UNCHANGED <<task, limiter, requests>>
       ELSE /\ call' = [NoCall EXCEPT !.tool = tool, !.arg = arg, !.phase = "fetch",
                           !.stage = 1]
            /\ RateLimitApiCall(t, RateLimitName(tool), [IdleTask EXCEPT !.op = "client"])

\* combos.py:39, ruling.py:67: the list taken from the response as it is
Kept(results) == results

\* The response to a client's request, or the exception raised in its place
ClientResponse(t, r) ==
    LET results == [i \in 1 .. r.results |-> i]
    IN  /\ task[t].pc = "request" /\ task[t].op = "client"
        /\ r.status = 200 /\ call.tool = "rulings" /\ call.stage = 1
              => call.arg \in DOMAIN Catalog
        /\ UNCHANGED <<now, cachest, deck>>
        /\ IF r.raised \/ r.status # 200
           THEN /\ ClientDone(t, r, FailureReply(call.tool, call.stage, r))
                /\ UNCHANGED <<limiter, requests>>
           ELSE IF call.tool \in ImportTools
           THEN /\ ClientDone(t, r, [NoReply EXCEPT !.deck_id = DeckId(call.tool, call.arg)])
                /\ UNCHANGED <<limiter, requests>>
           ELSE IF call.tool = "combos"
           THEN /\ ClientDone(t, r, [NoReply EXCEPT !.items = Kept(results),
                                                    !.total = Len(Kept(results))])
                /\ UNCHANGED <<limiter, requests>>
           ELSE IF call.stage = 1 /\ ~r.has_id
           THEN /\ ClientDone(t, r, Failed("Could not retrieve card ID"))
                /\ UNCHANGED <<limiter, requests>>
           ELSE IF call.stage = 1
           THEN /\ call' = [call EXCEPT !.stage = 2]
                /\ RateLimitApiCall(t, "scryfall", task[t])
           ELSE /\ ClientDone(t, r, [NoReply EXCEPT !.items = Kept(results),
                                                    !.total = Len(Kept(results))])
                /\ UNCHANGED <<limiter, requests>>

\* ------------------------------------------------- fetch_banned_cards, page by page
\* One call of fetch_banned_cards running alone, with the contents of the
\* pages.  call.seen holds the pages received so far.

CardNames == {"Alpha", "Mid", "Zeta"}

\* the order of Python's str comparison on these names
NameRank == ("Alpha" :> 1) @@ ("Mid" :> 2) @@ ("Zeta" :> 3)

MaxPageLen == 2

\* The `data` lists a page can carry: names in any order
PageData == UNION {[1 .. n -> CardNames] : n \in 0 .. MaxPageLen}

\* lines 115-124: the record kept for each card of a page; the uri tells the
\* entries of one name apart
Extracted(data, page) ==
    [i \in 1 .. Len(data) |-> [name |-> data[i], scryfall_uri |-> <<page, i>>]]

\* banned_cards after the loop: the cards of the pages in the order received
\* (call.seen holds the latest page first)
RECURSIVE Merged(_)
Merged(pages) ==
    IF pages = <<>> THEN <<>>
    ELSE Merged(Tail(pages)) \o Extracted(Head(pages).data, Len(pages))

\* list.sort is stable: an entry goes after the entries that are not greater
RECURSIVE Insert(_, _)
Insert(card, sorted) ==
    IF sorted = <<>> THEN <<card>>
    ELSE IF NameRank[card.name] < NameRank[Head(sorted).name]
         THEN <<card>> \o sorted
         ELSE <<Head(sorted)>> \o Insert(card, Tail(sorted))

SortedAsReceived(cards) == cards

\* line 131: banned_cards.sort(key=lambda x: x.get("name", ""))
RECURSIVE SortedByName(_)
SortedByName(cards) ==
    IF cards = <<>> THEN <<>>
    ELSE Insert(cards[Len(cards)], SortedByName(SubSeq(cards, 1, Len(cards) - 1)))

\* lines 134-144
BannedResult(pages) ==
    LET banned_cards == SortedByName(Merged(pages))
        card_names == [i \in 1 .. Len(banned_cards) |-> banned_cards[i].name]
    IN  [NoReply EXCEPT !.items = banned_cards, !.names = card_names,
                        !.total = Len(card_names)]

\* lines 93-102: up to the first request
BannedFetch(t) ==
    /\ t = ClientTask /\ task[t].pc = "idle"
    /\ call.phase = "none" /\ deck.phase = "none"
    /\ call' = [NoCall EXCEPT !.tool = "banned", !.phase = "pages"]
    /\ RateLimitApiCall(t, "scryfall", [IdleTask EXCEPT !.op = "banned_page"])
    /\ UNCHANGED <<now, cachest, deck>>

\* lines 104-128 and 130-151: the answer to one page request
BannedPage(t, r, data, next_page) ==
    LET pages == <<[data |-> data, next |-> next_page]>> \o call.seen
    IN  /\ task[t].pc = "request" /\ task[t].op = "banned_page"
        /\ next_page => Len(pages) < MaxPages
        /\ UNCHANGED <<now, cachest, deck>>
        /\ IF r.raised \/ r.status # 200
           THEN /\ call' = [call EXCEPT !.phase = "done",
                               !.result = Failed("Could not fetch banned cards list")]
                /\ task' = [task EXCEPT ![t] = IdleTask]
                /\ UNCHANGED <<limiter, requests>>
           ELSE IF next_page
           THEN /\ call' = [call EXCEPT !.seen = pages]
                /\ RateLimitApiCall(t, "scryfall", task[t])
           ELSE /\ call' = [call EXCEPT !.seen = pages, !.phase = "done",
                               !.result = BannedResult(pages)]
                /\ task' = [task EXCEPT ![t] = IdleTask]
                /\ UNCHANGED <<limiter, requests>>

\* ------------------------------------------------- fetch_and_parse_rules, the text
\* One call of fetch_and_parse_rules running alone, with the text it receives.
\* A text is the sequence of its lines (text.split('\n')), a line the sequence
\* of its characters; a section's text is the sequence of the lines that
\* '\n'.join puts together.

DigitChars == {"0", "1", "2"}

RulesLines ==
    { <<"1", ".", "A">>, <<" ", "1", ".", "A">>, <<"2", ".", "B">>,
      <<"1", "0", "0", ".", "C">>, <<"f">>, <<"g">>, <<>> }

MaxLines == 5
RulesTexts == UNION {[1 .. n -> RulesLines] : n \in 0 .. MaxLines}

\* str.strip()
RECURSIVE Strip(_)
Strip(line) ==
    IF line = <<>> THEN <<>>
    ELSE IF Head(line) = " " THEN Strip(Tail(line))
    ELSE IF line[Len(line)] = " " THEN Strip(SubSeq(line, 1, Len(line) - 1))
    ELSE line

\* line 52: line.strip().startswith(tuple(str(i) + '.' for i in range(10)))
IsMarker(line) ==
    LET s == Strip(line)
    IN  Len(s) >= 2 /\ s[1] \in DigitChars /\ s[2] = "."

PutIfAbsent(d, k, v) == [x \in DOMAIN d \cup {k} |-> IF x \in DOMAIN d THEN d[x] ELSE v]

\* sections[current_section] = ...
Put(d, k, v) == [x \in DOMAIN d \cup {k} |-> IF x = k THEN v ELSE d[x]]

\* lines 54-55 and 64-65: the section in progress is saved
Saved(sections, current_section, current_text) ==
    IF current_section # <<>> /\ current_text # <<>>
    THEN Put(sections, current_section, current_text)
    ELSE sections

\* lines 47-65: the loop over the lines from line i on, then the last section
RECURSIVE ParseFrom(_, _, _, _, _)
ParseFrom(lines, i, sections, current_section, current_text) ==
    IF i > Len(lines) THEN Saved(sections, current_section, current_text)
    ELSE IF IsMarker(lines[i])
    THEN ParseFrom(lines, i + 1, Saved(sections, current_section, current_text),
                   Strip(lines[i]), <<lines[i]>>)
    ELSE IF current_section # <<>>
    THEN ParseFrom(lines, i + 1, sections, current_section,
                   Append(current_text, lines[i]))
    ELSE ParseFrom(lines, i + 1, sections, current_section, current_text)

ParseRules(lines) == ParseFrom(lines, 1, <<>>, <<>>, <<>>)

\* lines 41-44: the GET of the rules text, with no rate limiting
RulesFetch(t) ==
    /\ t = ClientTask /\ task[t].pc = "idle"
    /\ call.phase = "none" /\ deck.phase = "none"
    /\ call' = [NoCall EXCEPT !.tool = "rules", !.phase = "text"]
    /\ task' = [task EXCEPT ![t] = [IdleTask EXCEPT !.pc = "request", !.op = "rules_text"]]
    /\ requests' = requests + 1
    /\ UNCHANGED <<now, limiter, cachest, deck>>

\* lines 45-75: the body arrives (whatever the status) and is parsed, or the
\* transport raises
RulesText(t, raised, text) ==
    /\ task[t].pc = "request" /\ task[t].op = "rules_text"
    /\ call' = [call EXCEPT !.phase = "done", !.seen = text,
                   !.result = IF raised THEN Failed("Could not fetch current rules")
                              ELSE [NoReply EXCEPT !.sections = ParseRules(text)]]
    /\ task' = [task EXCEPT ![t] = IdleTask]
    /\ UNCHANGED <<now, limiter, cachest, requests, deck>>

\* ------------------------------------------------- fetch_game_changers, entry by entry
\* One call of fetch_game_changers running alone, with the card views of the
\* EDHREC list.  call.seen holds the card views of all cardlists in order,
\* call.lookups the outcome of each Scryfall lookup made so far (an observer).

MaxViews == 3
CardViews ==
    UNION {[1 .. n -> [name : {"", "A", "B"}, num_decks : {1, 2}]] : n \in 0 .. MaxViews}

KeptAll(views, i, seen_names) == TRUE

\* line 187: if card_name and card_name not in seen
KeptView(views, i, seen_names) == views[i].name # "" /\ views[i].name \notin seen_names

\* lines 178-194: the loop over the card views from view i on; `sanitized`
\* stands for the data of the view an entry was made from
RECURSIVE DedupFrom(_, _, _)
DedupFrom(views, i, seen_names) ==
    IF i > Len(views) THEN <<>>
    ELSE IF KeptView(views, i, seen_names)
    THEN <<[name |-> views[i].name, num_decks |-> views[i].num_decks,
            sanitized |-> i, enriched |-> FALSE]>>
         \o DedupFrom(views, i + 1, seen_names \cup {views[i].name})
    ELSE DedupFrom(views, i + 1, seen_names)

\* list.sort(reverse=True) is stable: an entry goes after the entries that
\* are not smaller
RECURSIVE InsertByDecks(_, _)
InsertByDecks(card, sorted) ==
    IF sorted = <<>> THEN <<card>>
    ELSE IF card.num_decks > Head(sorted).num_decks
         THEN <<card>> \o sorted
         ELSE <<Head(sorted)>> \o InsertByDecks(card, Tail(sorted))

\* utils.py:223 and commander.py:130: sort(key=num_decks, reverse=True)
RECURSIVE SortedByDecks(_)
SortedByDecks(cards) ==
    IF cards = <<>> THEN <<>>
    ELSE InsertByDecks(cards[Len(cards)], SortedByDecks(SubSeq(cards, 1, Len(cards) - 1)))

\* lines 222-243
GameChangersResult(game_changers) ==
    LET sorted == SortedByDecks(game_changers)
        card_names == [i \in 1 .. Len(sorted) |-> sorted[i].name]
    IN  [NoReply EXCEPT !.items = sorted, !.names = card_names,
                        !.total = Len(card_names)]

\* lines 164-167: the GET of the EDHREC list, with no rate limiting
GcFetch(t) ==
    /\ t = ClientTask /\ task[t].pc = "idle"
    /\ call.phase = "none" /\ deck.phase = "none"
    /\ call' = [NoCall EXCEPT !.tool = "game_changers", !.phase = "views"]
    /\ task' = [task EXCEPT ![t] = [IdleTask EXCEPT !.pc = "request", !.op = "gc_views"]]
    /\ requests' = requests + 1
    /\ UNCHANGED <<now, limiter, cachest, deck>>

\* lines 168-200: the list arrives and is de-duplicated
GcViews(t, r, views) ==
    LET game_changers == DedupFrom(views, 1, {})
    IN  /\ task[t].pc = "request" /\ task[t].op = "gc_views"
        /\ UNCHANGED <<now, cachest, deck>>
        /\ IF r.raised \/ r.status # 200
           THEN /\ call' = [call EXCEPT !.phase = "done",
                               !.result = Failed("Could not fetch game changers list")]
                /\ task' = [task EXCEPT ![t] = IdleTask]
                /\ UNCHANGED <<limiter, requests>>
           ELSE IF game_changers = <<>>
           THEN /\ call' = [call EXCEPT !.phase = "done", !.seen = views,
                               !.result = GameChangersResult(game_changers)]
                /\ task' = [task EXCEPT ![t] = IdleTask]
                /\ UNCHANGED <<limiter, requests>>
           ELSE /\ call' = [call EXCEPT !.phase = "enrich", !.seen = views, !.stage = 1,
                               !.result = [NoReply EXCEPT !.items = game_changers]]
                /\ RateLimitApiCall(t, "scryfall", [IdleTask EXCEPT !.op = "gc_lookup"])

DroppedOnFailure(cards, i, ok) ==
    IF ok THEN [cards EXCEPT ![i].enriched = TRUE]
    ELSE SubSeq(cards, 1, i - 1) \o SubSeq(cards, i + 1, Len(cards))

\* lines 203-220 (commander.py:142-166): the entry after its lookup
Enriched(cards, i, ok) == IF ok THEN [cards EXCEPT ![i].enriched = TRUE] ELSE cards

\* lines 202-243: one Scryfall lookup is over; after the last the list is sorted
GcLookup(t, r) ==
    LET ok == ~r.raised /\ r.status = 200
        game_changers == Enriched(call.result.items, call.stage, ok)
        next == IF Len(game_changers) = Len(call.result.items)
                THEN call.stage + 1 ELSE call.stage
    IN  /\ task[t].pc = "request" /\ task[t].op = "gc_lookup"
        /\ UNCHANGED <<now, cachest, deck>>
        /\ IF next <= Len(game_changers)
           THEN /\ call' = [call EXCEPT !.stage = next, !.lookups = Append(@, ok),
                               !.result.items = game_changers]
                /\ RateLimitApiCall(t, "scryfall", task[t])
           ELSE /\ call' = [call EXCEPT !.phase = "done", !.lookups = Append(@, ok),
                               !.result = GameChangersResult(game_changers)]
                /\ task' = [task EXCEPT ![t] = IdleTask]
                /\ UNCHANGED <<limiter, requests>>

\* ------------------------------------------------- recommend_commander_cards
\* One call of recommend_commander_cards.  call.seen holds the cardlists of
\* the EDHREC page, call.result.items the list top_10 while its entries are
\* priced, call.result.total the length of top_cards.

\* commander.py:104, as runs of lower-case words
header_keywords ==
    {<<"top", "cards">>, <<"high", "synergy">>, <<"creatures">>, <<"artifacts">>,
     <<"enchantments">>, <<"instants">>, <<"sorceries">>, <<"planeswalkers">>}

\* lines 102-104: any(keyword in header for keyword in [...]) on the lower-cased header
HeaderMatches(header) == \E keyword \in header_keywords : Contains(keyword, Lower(header))

per_category == 10   \* line 106: cards[:10]
enough_cards == 10   \* line 126: len(top_cards) >= 10
top_count == 10      \* line 131: top_cards[:10]

Min(a, b) == IF a < b THEN a ELSE b

\* Python's cards[:n]
Prefix(cards, n) == SubSeq(cards, 1, Min(Len(cards), n))

EnoughAlways(top_cards) == TRUE

\* line 126
Enough(top_cards) == Len(top_cards) >= enough_cards

\* lines 101-127: the loop over the cardlists from list i on
RECURSIVE CollectFrom(_, _, _)
CollectFrom(cardlists, i, top_cards) ==
    IF i > Len(cardlists) THEN top_cards
    ELSE IF HeaderMatches(cardlists[i].header)
    THEN LET cards == Prefix(cardlists[i].cardviews, per_category)
             more == top_cards \o
                        [k \in 1 .. Len(cards) |->
                            [name |-> cards[k].name, num_decks |-> cards[k].num_decks,
                             category |-> cardlists[i].header, prices |-> "unset"]]
         IN  IF Enough(more) THEN more ELSE CollectFrom(cardlists, i + 1, more)
    ELSE CollectFrom(cardlists, i + 1, top_cards)

\* The cardlists an EDHREC page can hold: list l has n card views named
\* <<l, 1>> .. <<l, n>>, with deck counts that rise or fall along the list.
CardList(l, header, n, rising) ==
    [header |-> header,
     cardviews |-> [p \in 1 .. n |->
                      [name |-> <<l, p>>,
                       num_decks |-> IF rising THEN p ELSE per_category + 2 - p]]]

CardLists(sizes, max_lists) ==
    UNION {{[l \in 1 .. k |-> CardList(l, f[l].header, f[l].n, rising)] :
               f \in [1 .. k -> [header : {<<"High", "Synergy", "Cards">>, <<"New", "Cards">>},
                                 n : sizes]],
               rising \in BOOLEAN} :
           k \in 0 .. max_lists}

MaxLists == 3    \* cardlists of a long page
MaxPriced == 3   \* card views of the one cardlist of a short page

RecFailed == Failed("Failed to fetch EDHREC recommendations")

\* lines 16-38: the call up to the Scryfall lookup of the commander
RecCall(t, include_context) ==
    /\ t = ClientTask /\ task[t].pc = "idle"
    /\ call.phase = "none" /\ deck.phase = "none"
    /\ call' = [NoCall EXCEPT !.tool = "recommend", !.phase = "card",
                              !.include_context = include_context]
    /\ RateLimitApiCall(t, "scryfall", [IdleTask EXCEPT !.op = "rec_card"])
    /\ UNCHANGED <<now, cachest, deck>>

\* lines 67 and 73: await asyncio.sleep(0.1) before an EDHREC request
Pause(t) == [IdleTask EXCEPT !.pc = "pause", !.op = "rec_edhrec",
                             !.wake = now + api_rate_limit_ms]

\* lines 38-67: the commander's card has arrived
RecCard(t, r) ==
    /\ task[t].pc = "request" /\ task[t].op = "rec_card"
    /\ UNCHANGED <<now, limiter, cachest, requests, deck>>
    /\ IF r.raised THEN ClientDone(t, call.response, RecFailed)
       ELSE IF r.status = 404
       THEN ClientDone(t, call.response, Failed("Card not found"))
       ELSE IF r.status # 200
       THEN ClientDone(t, call.response,
                       [Failed("Failed to fetch card information") EXCEPT !.status = r.status])
       ELSE /\ call' = [call EXCEPT !.phase = "edhrec", !.stage = 1]
            /\ task' = [task EXCEPT ![t] = Pause(t)]

\* lines 69 and 75: the sleep is over and the EDHREC page is requested
RecPaused(t) ==
    /\ task[t].pc = "pause"
    /\ now >= task[t].wake
    /\ task' = [task EXCEPT ![t] = [@ EXCEPT !.pc = "request", !.wake = 0]]
    /\ requests' = requests + 1
    /\ UNCHANGED <<now, limiter, cachest, deck, call>>

RecPricedWithContext(t, cardlists, lookups, res) ==
    /\ call' = [call EXCEPT !.phase = "game_changers", !.seen = cardlists,
                            !.lookups = lookups, !.result = res]
    /\ task' = [task EXCEPT ![t] = ReadyTask]

\* lines 168-192: the result once top_10 is priced; with include_context the
\* context is fetched first
RecPriced(t, cardlists, lookups, res) ==
    IF call.include_context
    THEN /\ call' = [call EXCEPT !.phase = "game_changers", !.seen = cardlists,
                                  !.lookups = lookups, !.result = res]
         /\ task' = [task EXCEPT ![t] = ReadyTask]
    ELSE /\ call' = [call EXCEPT !.phase = "done", !.seen = cardlists,
                                  !.lookups = lookups, !.result = res]
         /\ task' = [task EXCEPT ![t] = IdleTask]

\* lines 69-141: an EDHREC page has arrived (the commanders page, stage 1, or
\* the cards page, stage 2)
RecEdhrec(t, r, cardlists) ==
    LET top_cards == CollectFrom(cardlists, 1, <<>>)
        top_10 == Prefix(SortedByDecks(top_cards), top_count)
        res == [NoReply EXCEPT !.items = top_10, !.total = Len(top_cards)]
    IN  /\ task[t].pc = "request" /\ task[t].op = "rec_edhrec"
        /\ UNCHANGED <<now, cachest, deck>>
        /\ IF r.raised
           THEN /\ ClientDone(t, call.response, RecFailed)
                /\ UNCHANGED <<limiter, requests>>
           ELSE IF r.status # 200 /\ call.stage = 1
           THEN /\ call' = [call EXCEPT !.stage = 2]
                /\ task' = [task EXCEPT ![t] = Pause(t)]
                /\ UNCHANGED <<limiter, requests>>
           ELSE IF r.status # 200
           THEN /\ ClientDone(t, call.response, Failed("No EDHREC data found"))
                /\ UNCHANGED <<limiter, requests>>
           ELSE IF top_10 = <<>>
           THEN /\ RecPriced(t, cardlists, <<>>, res)
                /\ UNCHANGED <<limiter, requests>>
           ELSE /\ call' = [call EXCEPT !.phase = "pricing", !.stage = 1,
                               !.seen = cardlists, !.result = res]
                /\ RateLimitApiCall(t, "scryfall", [IdleTask EXCEPT !.op = "rec_price"])

\* lines 142-166: the entry after its pricing lookup
Priced(cards, i, ok) == [cards EXCEPT ![i].prices = IF ok THEN "priced" ELSE "None"]

\* lines 134-166: one pricing lookup is over
RecPrice(t, r) ==
    LET ok == ~r.raised /\ r.status = 200
        top_10 == Priced(call.result.items, call.stage, ok)
        res == [call.result EXCEPT !.items = top_10]
    IN  /\ task[t].pc = "request" /\ task[t].op = "rec_price"
        /\ UNCHANGED <<now, cachest, deck>>
        /\ IF call.stage < Len(top_10)
           THEN /\ call' = [call EXCEPT !.stage = @ + 1, !.lookups = Append(@, ok),
                               !.result = res]
                /\ RateLimitApiCall(t, "scryfall", task[t])
           ELSE /\ RecPriced(t, call.seen, Append(call.lookups, ok), res)
                /\ UNCHANGED <<limiter, requests>>

\* context.py:55-56: get_commander_context awaits get_game_changers(), then
\* get_banned_cards()
RecContext(t) ==
    /\ task[t].pc = "ready" /\ call.phase \in {"game_changers", "banned"}
    /\ Accessor(t, call.phase)
    /\ call' = [call EXCEPT !.phase = IF @ = "game_changers" THEN "banned" ELSE "brackets"]
    /\ UNCHANGED <<now, deck>>

\* lines 185-192: get_commander_brackets() returns a constant; the result is returned
RecReturn(t) ==
    /\ task[t].pc = "ready" /\ call.phase = "brackets"
    /\ call' = [call EXCEPT !.phase = "done", !.result.context = TRUE]
    /\ task' = [task EXCEPT ![t] = IdleTask]
    /\ UNCHANGED <<now, limiter, cachest, requests, deck>>

\* ------------------------------------------------------------- search_rules
\* One call of search_rules.  A text is the sequence of its characters; an
\* optional argument is absent (None) or a text.  The sections of the rules
\* payload are drawn when search_rules reads them, which it does once.

RuleKeys == {<<"1", ".">>, <<"1", ".", "1">>, <<"2", ".">>}
SectionDicts ==
    UNION {[keys -> {<<"M", "a">>, <<"a", "m">>, <<"x">>}] : keys \in SUBSET RuleKeys}

Absent == [given |-> FALSE, text |-> <<>>]
Given(text) == [given |-> TRUE, text |-> text]
SearchArgs(texts) == {Absent} \cup {Given(s) : s \in texts}

\* `if section:` and `if keyword:`
Truthy(a) == a.given /\ a.text # <<>>

\* str.startswith
StartsWith(text, prefix) ==
    Len(prefix) <= Len(text) /\ SubSeq(text, 1, Len(prefix)) = prefix

KeywordInExact(keyword, rule_text) == Contains(keyword, rule_text)

\* rules.py:53-55: keyword.lower() in rule_text.lower()
KeywordIn(keyword, rule_text) == Contains(Lower(keyword), Lower(rule_text))

\* rules.py:44-56
SearchResults(sections, section, keyword) ==
    LET by_section == IF Truthy(section)
                      THEN {k \in DOMAIN sections : StartsWith(k, section.text)}
                      ELSE {}
        by_keyword == IF Truthy(keyword)
                      THEN {k \in DOMAIN sections : KeywordIn(keyword.text, sections[k])}
                      ELSE {}
    IN  [k \in by_section \cup by_keyword |-> sections[k]]

\* rules.py:35-40: search_rules up to `await get_rules()`
SearchRules(t, section, keyword) ==
    /\ t = ClientTask /\ task[t].pc = "idle"
    /\ call.phase = "none" /\ deck.phase = "none"
    /\ call' = [NoCall EXCEPT !.tool = "search_rules", !.phase = "search",
                              !.arg = <<section, keyword>>]
    /\ Accessor(t, "rules")
    /\ UNCHANGED <<now, deck>>

\* rules.py:41-62: get_rules() has returned
SearchReturn(t, sections) ==
    /\ call.phase = "search"
    /\ task[t].pc \in {"idle", "ready"}
    /\ IF returned.error
       THEN call' = [call EXCEPT !.phase = "done",
                                 !.result = Failed("Could not fetch current rules")]
       ELSE LET results == SearchResults(sections, call.arg[1], call.arg[2])
            IN  call' = [call EXCEPT !.phase = "done", !.seen = sections,
                            !.result = [NoReply EXCEPT !.sections = results,
                                                       !.total = Cardinality(DOMAIN results)]]
    /\ task' = [task EXCEPT ![t] = IdleTask]
    /\ UNCHANGED <<now, limiter, cachest, requests, deck>>

\* ------------------------------------------------- deck importers, the deck
\* One call of fetch_archidekt_deck or fetch_moxfield_deck with the deck the
\* upstream returns.  call.seen holds that deck; in the result, items is
\* `cards`, names is `commanders` and total is `total_cards`.

Quantities == {1, 2}

\* the category labels of an Archidekt card entry
CategoryLists ==
    {<<>>, <<"Ramp">>, <<"commander">>, <<"Commander", "Ramp">>,
     <<"Ramp", "COMMANDER">>, <<"Commander", "commander">>}

\* data["cards"] of Archidekt; a card is named by its place in the list
MaxDeckCards == 3
ArchidektDecks ==
    UNION {[1 .. n -> [quantity : Quantities, categories : CategoryLists]] :
              n \in 0 .. MaxDeckCards}

\* data["boards"] of Moxfield: some of the four boards, each with its `count`
\* and the quantities of its card entries
BoardNames == {"mainboard", "sideboard", "maybeboard", "commanders"}
MaxCount == 2
MoxfieldDecks ==
    UNION {[names -> [count : 0 .. MaxCount,
                      cards : {<<>>} \cup {<<q>> : q \in Quantities}]] :
              names \in SUBSET BoardNames}

\* the order in which the boards are gone through
BoardOrder == <<"commanders", "mainboard", "sideboard", "maybeboard">>

IsCommanderLabelExact(cat) == cat = "commander"

\* archidekt.py:125: cat.lower() == "commander"
IsCommanderLabel(cat) == Lower(<<cat>>)[1] = "commander"

\* archidekt.py:86-113: the record kept for each card entry
ArchidektCards(data) ==
    [i \in 1 .. Len(data) |->
        [name |-> i, quantity |-> data[i].quantity, categories |-> data[i].categories]]

\* archidekt.py:119-140: the commanders among cards i .. Len(cards)
RECURSIVE ArchidektCommanders(_, _)
ArchidektCommanders(cards, i) ==
    IF i > Len(cards) THEN <<>>
    ELSE LET is_commander ==
                 \E k \in 1 .. Len(cards[i].categories) :
                    IsCommanderLabel(cards[i].categories[k])
         IN  (IF is_commander THEN <<cards[i].name>> ELSE <<>>)
                \o ArchidektCommanders(cards, i + 1)

\* sum(card["quantity"] for card in cards)
RECURSIVE SumQuantity(_)
SumQuantity(cards) ==
    IF cards = <<>> THEN 0 ELSE Head(cards).quantity + SumQuantity(Tail(cards))

\* archidekt.py:61-163
ArchidektResult(reply, data) ==
    LET cards == ArchidektCards(data)
    IN  [reply EXCEPT !.items = cards,
                      !.names = ArchidektCommanders(cards, 1),
                      !.total = SumQuantity(cards)]

\* moxfield.py:104-139: the records of the boards from board b of BoardOrder on
RECURSIVE MoxfieldCards(_, _)
MoxfieldCards(boards, b) ==
    IF b > Len(BoardOrder) THEN <<>>
    ELSE LET board_name == BoardOrder[b]
             entries == IF board_name \in DOMAIN boards
                        THEN boards[board_name].cards ELSE <<>>
         IN  [i \in 1 .. Len(entries) |->
                 [name |-> <<board_name, i>>, quantity |-> entries[i],
                  board |-> board_name]]
             \o MoxfieldCards(boards, b + 1)

\* moxfield.py:108-109 and 142-145: board_counts.get(board_name, 0)
BoardCount(boards, board_name) ==
    IF board_name \in DOMAIN boards THEN boards[board_name].count ELSE 0

InTotalAll(board_name) == TRUE

\* moxfield.py:146: the boards whose counts are added up
InTotal(board_name) == board_name \in {"mainboard", "sideboard", "commanders"}

RECURSIVE SumCounts(_, _)
SumCounts(boards, names) ==
    IF names = {} THEN 0
    ELSE LET board_name == CHOOSE x \in names : TRUE
         IN  BoardCount(boards, board_name) + SumCounts(boards, names \ {board_name})

\* moxfield.py:78-98: the commanders board, when its count is positive
MoxfieldCommanders(boards) ==
    IF BoardCount(boards, "commanders") > 0
    THEN [i \in 1 .. Len(boards["commanders"].cards) |-> <<"commanders", i>>]
    ELSE <<>>

\* moxfield.py:61-172
MoxfieldResult(reply, boards) ==
    [reply EXCEPT !.items = MoxfieldCards(boards, 1),
                  !.names = MoxfieldCommanders(boards),
                  !.total = SumCounts(boards, {b \in BoardNames : InTotal(b)})]

\* a deck URL both patterns accept, each for its own host
ImportUrl(tool) == <<"https://", Host(tool), "/decks/", "7">>

\* archidekt.py:46-178 and moxfield.py:46-187: the response to the importer's
\* request, with the deck it carries, or the exception raised in its place
ImportResponse(t, r, data) ==
    LET reply == [NoReply EXCEPT !.deck_id = DeckId(call.tool, call.arg)]
    IN  /\ task[t].pc = "request" /\ task[t].op = "client"
        /\ call.tool \in ImportTools
        /\ UNCHANGED <<now, limiter, cachest, requests, deck>>
        /\ task' = [task EXCEPT ![t] = IdleTask]
        /\ IF r.raised \/ r.status # 200
           THEN call' = [call EXCEPT !.phase = "done", !.response = r,
                            !.result = FailureReply(call.tool, call.stage, r)]
           ELSE call' = [call EXCEPT !.phase = "done", !.response = r, !.seen = data,
                            !.result = IF call.tool = "archidekt"
                                       THEN ArchidektResult(reply, data)
                                       ELSE MoxfieldResult(reply, data)]

Init ==
    /\ now = ClockStart
    /\ last_api_call_time =
          [a \in {"scryfall", "commanderspellbook", "archidekt"} |-> 0]
    /\ caches = [d \in Datasets |-> None]
    /\ task = [t \in Tasks |-> IdleTask]
    /\ own_stamp = [t \in Tasks |-> [api |-> "none", at |-> 0, n |-> 0, prev |-> 0]]
    /\ fetch_count = [d \in Datasets |-> 0]
    /\ calls = [d \in Datasets |-> 0]
    /\ requests = 0
    /\ returned = None
    /\ first_payload = [d \in Datasets |-> None]
    /\ deck = NoDeck
    /\ call = NoCall

\* ---- the rate limiter under concurrent callers
Next ==
    \/ Tick
    \/ \E t \in Tasks, a \in DirectApis : CallRateLimit(t, a)
    \/ \E t \in Tasks : Wake(t)

Spec == Init /\ [][Next]_vars

\* ---- the dataset accessors under concurrent callers
Resume ==
    \/ Tick
    \/ \E t \in Tasks : Wake(t)
    \/ \E t \in Tasks, r \in Responses : RulesResponse(t, r)
    \/ \E t \in Tasks, r \in Responses, np \in BOOLEAN : BannedResponse(t, r, np)
    \/ \E t \in Tasks, r \in Responses, n \in 0 .. MaxEntries : GameChangersResponse(t, r, n)
    \/ \E t \in Tasks, r \in Responses : EnrichResponse(t, r)

CacheNext ==
    \/ Resume
    \/ \E t \in Tasks, d \in Datasets : GetCached(t, d)

CacheSpec == Init /\ [][CacheNext]_vars

\* ---- the dataset accessors called one after the other
AllIdle == \A t \in Tasks : task[t].pc = "idle"

SeqNext ==
    \/ Resume
    \/ AllIdle /\ \E t \in Tasks, d \in Datasets : GetCached(t, d)

SeqSpec == Init /\ [][SeqNext]_vars

\* ---- one call of generate_commander_deck_data, running alone
DeckNext ==
    \/ /\ deck.phase = "none"
       /\ \E commanders \in CommanderLists, bracket \in Brackets :
             DeckCall(DeckTask, commanders, bracket)
    \/ /\ deck.phase = "cards"
       /\ \E r \in Responses : DeckCardResponse(DeckTask, r)
    \/ DeckContext(DeckTask)
    \/ /\ deck.phase = "commanders"
       /\ \E recs, combos, rulings \in SubFetchOutcomes :
             DeckGather(DeckTask, recs, combos, rulings)
    \/ Elapse(DeckTask)
    \/ Wake(DeckTask)
    \/ \E r \in Responses : RulesResponse(DeckTask, r)
    \/ \E r \in Responses, np \in BOOLEAN : BannedResponse(DeckTask, r, np)
    \/ \E r \in Responses, n \in 0 .. MaxEntries : GameChangersResponse(DeckTask, r, n)
    \/ \E r \in Responses : EnrichResponse(DeckTask, r)

DeckSpec == Init /\ [][DeckNext]_vars

\* the event loop keeps running the coroutine and every request is answered
\* or fails
DeckLiveSpec == DeckSpec /\ WF_vars(DeckNext)

\* ---- one call of a leaf client, running alone
ClientNext ==
    \/ /\ call.phase = "none"
       /\ \/ \E tool \in ImportTools, url \in Urls : ClientCall(ClientTask, tool, url)
          \/ \E tool \in SearchTools, name \in QueryNames : ClientCall(ClientTask, tool, name)
    \/ /\ call.phase = "fetch"
       /\ \E r \in ClientResponses : ClientResponse(ClientTask, r)
    \/ Elapse(ClientTask)
    \/ Wake(ClientTask)

ClientSpec == Init /\ [][ClientNext]_vars

\* ---- one call of fetch_banned_cards, running alone
BannedNext ==
    \/ BannedFetch(ClientTask)
    \/ /\ call.phase = "pages"
       /\ \E r \in Responses, data \in PageData, next_page \in BOOLEAN :
             BannedPage(ClientTask, r, data, next_page)
    \/ Elapse(ClientTask)
    \/ Wake(ClientTask)

BannedSpec == Init /\ [][BannedNext]_vars

\* ---- one call of fetch_and_parse_rules, running alone
ParseNext ==
    \/ RulesFetch(ClientTask)
    \/ /\ call.phase = "text"
       /\ \E raised \in BOOLEAN, text \in RulesTexts : RulesText(ClientTask, raised, text)

ParseSpec == Init /\ [][ParseNext]_vars

\* ---- one call of fetch_game_changers or of recommend_commander_cards on a
\* short EDHREC page, running alone
EnrichNext ==
    \/ GcFetch(ClientTask)
    \/ /\ call.phase = "views"
       /\ \E r \in Responses, views \in CardViews : GcViews(ClientTask, r, views)
    \/ /\ call.phase = "enrich"
       /\ \E r \in Responses : GcLookup(ClientTask, r)
    \/ /\ call.phase = "none"
       /\ \E include_context \in BOOLEAN : RecCall(ClientTask, include_context)
    \/ /\ call.phase = "card"
       /\ \E r \in Responses : RecCard(ClientTask, r)
    \/ RecPaused(ClientTask)
    \/ /\ call.phase = "edhrec"
       /\ \E r \in Responses, cardlists \in CardLists(0 .. MaxPriced, 1) :
             RecEdhrec(ClientTask, r, cardlists)
    \/ /\ call.phase = "pricing"
       /\ \E r \in Responses : RecPrice(ClientTask, r)
    \/ RecContext(ClientTask)
    \/ RecReturn(ClientTask)
    \/ /\ call.tool = "recommend"
       /\ \/ \E r \in Responses, np \in BOOLEAN : BannedResponse(ClientTask, r, np)
          \/ \E r \in Responses, n \in 0 .. MaxEntries :
                GameChangersResponse(ClientTask, r, n)
          \/ \E r \in Responses : EnrichResponse(ClientTask, r)
    \/ Elapse(ClientTask)
    \/ Wake(ClientTask)

EnrichSpec == Init /\ [][EnrichNext]_vars

\* ---- one call of recommend_commander_cards without context on a long
\* EDHREC page, every pricing lookup answered with 200
RecNext ==
    \/ RecCall(ClientTask, FALSE)
    \/ /\ call.phase = "card"
       /\ \E r \in Responses : RecCard(ClientTask, r)
    \/ RecPaused(ClientTask)
    \/ /\ call.phase = "edhrec"
       /\ \E r \in Responses,
             cardlists \in CardLists({0, 4, per_category, per_category + 1}, MaxLists) :
             RecEdhrec(ClientTask, r, cardlists)
    \/ /\ call.phase = "pricing"
       /\ \E r \in {x \in Responses : ~x.raised /\ x.status = 200} : RecPrice(ClientTask, r)
    \/ Elapse(ClientTask)
    \/ Wake(ClientTask)

RecSpec == Init /\ [][RecNext]_vars

\* ---- one call of search_rules, running alone
SearchNext ==
    \/ /\ call.phase = "none"
       /\ \E section \in SearchArgs({<<>>, <<"1">>, <<"1", ".">>, <<"2">>, <<"3">>}),
             keyword \in SearchArgs({<<>>, <<"m", "a">>, <<"M", "A">>, <<"x">>, <<"z">>}) :
             SearchRules(ClientTask, section, keyword)
    \/ \E r \in Responses : RulesResponse(ClientTask, r)
    \/ /\ call.phase = "search"
       /\ \E sections \in SectionDicts : SearchReturn(ClientTask, sections)

SearchSpec == Init /\ [][SearchNext]_vars

\* ---- one call of a deck importer with an accepted URL, running alone; of
\* a response only the status, or the exception, matters here
ImportNext ==
    \/ /\ call.phase = "none"
       /\ \E tool \in ImportTools : ClientCall(ClientTask, tool, ImportUrl(tool))
    \/ /\ call.phase = "fetch" /\ call.tool = "archidekt"
       /\ \E r \in {x \in ClientResponses : x.results = 0 /\ ~x.has_id},
             data \in ArchidektDecks : ImportResponse(ClientTask, r, data)
    \/ /\ call.phase = "fetch" /\ call.tool = "moxfield"
       /\ \E r \in {x \in ClientResponses : x.results = 0 /\ ~x.has_id},
             data \in MoxfieldDecks : ImportResponse(ClientTask, r, data)

ImportSpec == Init /\ [][ImportNext]_vars

\* ------------------------------------------------------------------ claims

Returned(t) == own_stamp'[t].n # own_stamp[t].n

\* C1: under any interleaving of concurrent callers for one API name, every
\* return of rate_limit_api_call is at least 100 ms after the previous return
\* for that name.
C1_MinGapAnyCallers ==
    [][\A t \in Tasks :
          Returned(t) =>
              own_stamp'[t].at - LastCall(own_stamp'[t].api) >= api_rate_limit_ms]_vars

\* C2: when one task calls rate_limit_api_call twice in a row for the same
\* name, the two stamps are at least 100 ms apart.
C2_BackToBackGap ==
    \A t \in Tasks :
        own_stamp[t].prev > 0 =>
            own_stamp[t].at - own_stamp[t].prev >= api_rate_limit_ms

C2_Witness ==
    \E t \in Tasks :
        /\ own_stamp[t].prev > 0
        /\ own_stamp[t].at - own_stamp[t].prev < 2 * api_rate_limit_ms

\* C3: a call suspends only because of an earlier stamp of the same name less
\* than 100 ms old (so the first call for a name never sleeps); a call for
\* another name neither changes a name's stamp nor lengthens a wait for it.
C3_SleepHasCause ==
    \A t \in Tasks :
        task[t].pc = "sleep" =>
            /\ task[t].api \in DOMAIN last_api_call_time
            /\ last_api_call_time[task[t].api] >= ClockStart
            /\ task[t].wake <= last_api_call_time[task[t].api] + api_rate_limit_ms

C3_OtherNamesUntouched ==
    /\ \A a \in DOMAIN last_api_call_time' :
          LastCall(a)' # LastCall(a) =>
              \E t \in Tasks : Returned(t) /\ own_stamp'[t].api = a
    /\ \A t \in Tasks :
          (task[t].pc = "sleep" /\ task'[t].pc = "sleep") =>
              task'[t].wake = task[t].wake

C3_PerNameIndependence == []C3_SleepHasCause /\ [][C3_OtherNamesUntouched]_vars

C3_Witness ==
    \E t, u \in Tasks :
        /\ task[t].pc = "sleep" /\ task[t].api = "scryfall"
        /\ own_stamp[u].api = "moxfield"
        /\ own_stamp[u].at >= last_api_call_time["scryfall"]
        /\ own_stamp[u].at = now

\* C4: under sequential calls each accessor's fetch function runs exactly
\* once; every call after the first returns the stored value, issues no
\* request and leaves the rate limiter as it was.
C4_FetchedOnce ==
    \A d \in Datasets : fetch_count[d] = IF calls[d] = 0 THEN 0 ELSE 1

C4_LaterCallsPassThrough ==
    \A d \in Datasets :
        (calls'[d] = calls[d] + 1 /\ calls[d] >= 1) =>
            /\ requests' = requests
            /\ last_api_call_time' = last_api_call_time
            /\ caches' = caches
            /\ task' = task
            /\ returned' = caches[d]

C4_SequentialFetchOnce == []C4_FetchedOnce /\ [][C4_LaterCallsPassThrough]_vars

C4_Witness ==
    /\ AllIdle
    /\ calls["banned"] >= 2
    /\ ~caches["banned"].error
    /\ requests >= 2

\* C5 (as claimed): over any interleaving of accessor calls the fetch function
\* of a dataset is started at most once.
C5_AtMostOneFetch == \A d \in Datasets : fetch_count[d] <= 1

\* C5 (amended): a fetch is started only by a call that finds the cache
\* variable None; once the variable is set no fetch is started again.
C5_FetchOnlyWhileNone ==
    [][\A d \in Datasets :
          fetch_count'[d] # fetch_count[d] =>
              /\ caches[d] = None
              /\ fetch_count'[d] = fetch_count[d] + 1
              /\ calls'[d] = calls[d] + 1]_vars

C5_Witness ==
    \E d \in Datasets :
        /\ fetch_count[d] = 2
        /\ calls[d] = 3
        /\ caches[d] # None
        /\ AllIdle

DatasetOf(op) ==
    CASE op = "rules" -> "rules"
      [] op = "banned" -> "banned"
      [] op \in {"gc_list", "gc_card"} -> "game_changers"
      [] OTHER -> "none"

Settled(d) == caches[d] # None /\ \A t \in Tasks : DatasetOf(task[t].op) # d

\* C6 (as claimed): once a cache variable holds a payload, nothing replaces it.
C6_NeverReplaced ==
    [][\A d \in Datasets : caches[d] # None => caches'[d] = caches[d]]_vars

\* C6 (amended): a cache variable is None until its dataset is first requested;
\* once it holds a payload and no fetch of that dataset is still running, it
\* keeps that payload, no fetch starts, and every call returns that payload.
C6_NoneUntilRequested == \A d \in Datasets : calls[d] = 0 => caches[d] = None

C6_SettledStaysFixed ==
    \A d \in Datasets :
        Settled(d) =>
            /\ caches'[d] = caches[d]
            /\ Settled(d)'
            /\ calls'[d] # calls[d] => returned' = caches[d]

C6_FixedOnceSettled == []C6_NoneUntilRequested /\ [][C6_SettledStaysFixed]_vars

C6_Witness ==
    \E d \in Datasets :
        /\ Settled(d)
        /\ fetch_count[d] = 2
        /\ first_payload[d] # caches[d]
        /\ calls[d] = 3
        /\ returned = caches[d]

BadParams ==
    \/ deck.bracket \notin 1 .. 5
    \/ Len(deck.commanders) = 0
    \/ Len(deck.commanders) > 2

\* C8: a call of generate_commander_deck_data whose bracket is outside 1..5,
\* whose commander list is empty or which names more than two commanders has
\* returned an error object that is not valid, and nothing else has happened:
\* no request was issued, rate_limit_api_call was not called (no stamp moved,
\* nobody sleeps) and no accessor was called or cache populated.
C8_RejectedBeforeIO ==
    (deck.phase # "none" /\ BadParams) =>
        /\ deck.phase = "done"
        /\ deck.result.has_error /\ ~deck.result.valid /\ ~deck.result.raised
        /\ requests = 0
        /\ \A a \in DOMAIN last_api_call_time : last_api_call_time[a] = 0
        /\ \A t \in Tasks : own_stamp[t].n = 0 /\ task[t] = IdleTask
        /\ \A d \in Datasets : caches[d] = None /\ calls[d] = 0 /\ fetch_count[d] = 0

C8_Witness ==
    /\ deck.phase = "done"
    /\ deck.bracket = 0
    /\ Len(deck.commanders) = 1
    /\ deck.result.has_error

\* C9: once the commanders have validated, the call ends, and when it has
\* ended it returned valid = true with one deck_building_data entry per
\* supplied commander, in input order, whose recommendations, combos and
\* rulings are each a result or an error object, whatever the sub-fetches
\* returned or raised.
C9_CompleteShape ==
    (deck.phase = "done" /\ deck.validated) =>
        /\ deck.result.valid /\ ~deck.result.has_error /\ ~deck.result.raised
        /\ Len(deck.result.data) = Len(deck.commanders)
        /\ \A i \in 1 .. Len(deck.result.data) :
              /\ deck.result.data[i].name = Catalog[deck.commanders[i]].name
              /\ deck.result.data[i].recommendations \in {"result", "error"}
              /\ deck.result.data[i].combos \in {"result", "error"}
              /\ deck.result.data[i].rulings \in {"result", "error"}

C9_AlwaysComplete ==
    /\ [] C9_CompleteShape
    /\ deck.validated ~> (deck.phase = "done")

C9_Witness ==
    /\ deck.phase = "done" /\ deck.validated
    /\ Len(deck.result.data) = 2
    /\ deck.result.data[1].name # deck.result.data[2].name
    /\ deck.result.data[1].combos = "error"
    /\ deck.result.data[2].rulings = "error"
    /\ caches["banned"].error

\* the name X after the words "Partner with" in an oracle text
PartnerWithName(oracle_text) ==
    LET i == CHOOSE i \in 1 .. Len(oracle_text) - 2 :
                 oracle_text[i] = "Partner" /\ oracle_text[i + 1] = "with"
    IN  <<oracle_text[i + 2]>>

SaysPartnerWith(oracle_text) == Contains(<<"Partner", "with">>, oracle_text)

\* C10: with two commanders, one of which says "Partner with X", the result is
\* valid only if the other commander's name is X.
C10_PartnerWithNeedsNamedPartner ==
    (deck.phase \notin {"none", "cards"} /\ Len(deck.result.commanders) = 2) =>
        \A i \in 1 .. 2 :
            LET cmd == deck.result.commanders[i]
                other == deck.result.commanders[3 - i]
            IN  (SaysPartnerWith(cmd.oracle_text)
                    /\ other.name # PartnerWithName(cmd.oracle_text))
                => ~deck.result.valid

\* the plain "Partner" ability, not "Partner with X"
BearsGenericPartner(oracle_text) ==
    Contains(<<"Partner">>, oracle_text) /\ ~SaysPartnerWith(oracle_text)

\* C11: two fetched commanders that can each be a commander and each bear the
\* generic "Partner" ability validate as a pair, in either order: there is no
\* validation error and the result is valid.
C11_GenericPartnersValid ==
    (deck.phase \notin {"none", "cards"} /\ Len(deck.result.commanders) = 2
        /\ \A i \in 1 .. 2 :
              /\ deck.result.commanders[i].can_be_commander
              /\ BearsGenericPartner(deck.result.commanders[i].oracle_text))
    => (deck.validated /\ deck.result.valid /\ deck.result.errors = <<>>)

C11_Witness ==
    /\ deck.phase = "done"
    /\ deck.commanders = <<"Tymna", "Thrasios">>
    /\ deck.result.valid
    /\ Len(deck.result.data) = 2

Range(text) == {text[i] : i \in 1 .. Len(text)}

\* neither a legendary creature nor a card with "can be your commander" text
Ineligible(cmd) ==
    /\ ~("Legendary" \in Range(cmd.type_line) /\ "Creature" \in Range(cmd.type_line))
    /\ ~Contains(<<"can", "be", "your", "commander">>, Lower(cmd.oracle_text))

\* C12: when the validation has run, validation_results.errors holds, for each
\* card name, exactly as many eligibility reasons naming that card as there are
\* fetched commanders of that name that are neither a legendary creature nor
\* carry "can be your commander" text, and the result is valid exactly when
\* validation_results.errors is empty.
C12_ReasonPerIneligibleCard ==
    (deck.phase \notin {"none", "cards"} /\ deck.result.commanders # <<>>) =>
        LET cmds == deck.result.commanders
            errors == deck.result.errors
        IN  /\ \A i \in 1 .. Len(cmds) :
                  Cardinality({j \in 1 .. Len(errors) :
                      errors[j] = Message("not a legendary creature", cmds[i].name)})
                  = Cardinality({k \in 1 .. Len(cmds) :
                      cmds[k].name = cmds[i].name /\ Ineligible(cmds[k])})
            /\ deck.result.valid <=> (errors = <<>>)
            /\ ~deck.result.has_error

C12_Witness ==
    /\ deck.phase = "done"
    /\ deck.commanders = <<"Sol Ring", "Sol Ring">>
    /\ Len(deck.result.errors) = 4
    /\ ~deck.result.valid

\* C13: a finished generate_commander_deck_data call carries a top-level
\* `error` field exactly when it ended unsuccessfully (invalid parameters,
\* failed commander lookup, rules violation); a successful result has none.
C13_ErrorFieldSignalsFailure ==
    deck.phase = "done" => (deck.result.has_error <=> ~deck.result.valid)

\* C14: a fetch_archidekt_deck or fetch_moxfield_deck call whose URL does not
\* match the source's pattern has returned the invalid-URL error and nothing
\* else has happened: no request was issued, no stamp of the rate limiter moved
\* or was added, and the coroutine never slept.
C14_InvalidUrlNoNetwork ==
    (call.tool \in ImportTools /\ DeckId(call.tool, call.arg) = <<>>) =>
        /\ call.phase = "done"
        /\ call.result.error = "Invalid URL"
        /\ requests = 0
        /\ DOMAIN last_api_call_time = {"scryfall", "commanderspellbook", "archidekt"}
        /\ \A a \in DOMAIN last_api_call_time : last_api_call_time[a] = 0
        /\ \A t \in Tasks : own_stamp[t].n = 0 /\ task[t] = IdleTask

C14_Witness ==
    /\ call.phase = "done"
    /\ call.tool = "moxfield"
    /\ call.arg = <<"https://", "www.", "archidekt.com", "/decks/", "7">>
    /\ call.result.error = "Invalid URL"
    /\ requests = 0

\* the input itself is a URL of the source's shape: it begins with the scheme
StrictShape(tool, url) == Len(url) >= 1 /\ MatchAt(tool, url, 1)

\* C15: a deck importer accepts its input only if the input itself is a URL of
\* the source's shape; any other input ends in the invalid-URL error.
C15_StrictUrlMatch ==
    (call.tool \in ImportTools /\ ~StrictShape(call.tool, call.arg)) =>
        (call.phase = "done" /\ call.result.error = "Invalid URL")

FailureKind(r) ==
    IF r.raised THEN "transport" ELSE IF r.status = 404 THEN "not found" ELSE "upstream"

\* C16: when a leaf client's call ends on an upstream failure, the error it
\* returns is of another kind than the errors the same client returns at that
\* point for the two other failure kinds (404, other non-200 status, transport
\* failure).
C16_DistinctFailureKinds ==
    (call.phase = "done" /\ (call.response.raised \/ call.response.status \notin {0, 200})) =>
        \A r \in ClientResponses :
            ((r.raised \/ r.status # 200) /\ FailureKind(r) # FailureKind(call.response))
            => FailureReply(call.tool, call.stage, r).error # call.result.error

\* C20: search_combos returns at most 5 combos whatever the length of the
\* upstream results list, and total_combos is the number returned.
C20_AtMostFiveCombos ==
    (call.phase = "done" /\ call.tool = "combos" /\ call.result.error = "") =>
        /\ Len(call.result.items) <= 5
        /\ call.result.total = Len(call.result.items)

\* the page received as the p-th
PageNo(p) == call.seen[Len(call.seen) - p + 1]

RECURSIVE TotalLen(_)
TotalLen(pages) == IF pages = <<>> THEN 0 ELSE Len(Head(pages).data) + TotalLen(Tail(pages))

\* C17: fetch_banned_cards asks for a further page exactly as long as the last
\* response carried a next_page link, and a successful call returns every
\* entry of every page received exactly once, in ascending order of name, with
\* banned_cards the names of banned_cards_with_details in the same order and
\* total_banned their number.
C17_AllPagesMergedSorted ==
    /\ (call.tool = "banned" /\ call.phase = "pages") =>
          \A p \in 1 .. Len(call.seen) : call.seen[p].next
    /\ (call.tool = "banned" /\ call.phase = "done" /\ call.result.error = "") =>
          LET cards == call.result.items
              names == call.result.names
          IN  /\ ~call.seen[1].next
              /\ \A p \in 2 .. Len(call.seen) : call.seen[p].next
              /\ requests = Len(call.seen)
              /\ Len(cards) = TotalLen(call.seen)
              /\ \A p \in 1 .. Len(call.seen) : \A k \in 1 .. Len(PageNo(p).data) :
                    Cardinality({i \in 1 .. Len(cards) :
                        cards[i] = [name |-> PageNo(p).data[k],
                                    scryfall_uri |-> <<p, k>>]}) = 1
              /\ \A i, j \in 1 .. Len(cards) :
                    i < j => NameRank[cards[i].name] <= NameRank[cards[j].name]
              /\ Len(names) = Len(cards)
              /\ \A i \in 1 .. Len(cards) : names[i] = cards[i].name
              /\ call.result.total = Len(cards)

C17_Witness ==
    /\ call.tool = "banned" /\ call.phase = "done"
    /\ Len(call.seen) = 2
    /\ PageNo(1).data = <<"Zeta">>
    /\ PageNo(2).data = <<"Alpha">>
    /\ call.result.names = <<"Alpha", "Zeta">>

ReceivedText == call.seen

Markers == {i \in 1 .. Len(ReceivedText) : IsMarker(ReceivedText[i])}

\* the marker line i and the lines after it up to the next marker line
Block(i) ==
    LET later == {j \in Markers : j > i}
        last == IF later = {} THEN Len(ReceivedText)
                ELSE (CHOOSE j \in later : \A k \in later : j <= k) - 1
    IN  SubSeq(ReceivedText, i, last)

Parsed == call.tool = "rules" /\ call.phase = "done" /\ call.result.error = ""

\* C18 as stated: there is one section per marker line, keyed by that line,
\* and it holds the marker line and the lines up to the next marker line.
C18_SectionPerMarkerLine ==
    Parsed =>
        /\ Cardinality(DOMAIN call.result.sections) = Cardinality(Markers)
        /\ \A i \in Markers :
              /\ ReceivedText[i] \in DOMAIN call.result.sections
              /\ call.result.sections[ReceivedText[i]] = Block(i)

\* C18: the sections are keyed by the marker lines stripped of surrounding
\* white space, one section per distinct key; the section of a key holds the
\* last marker line with that key (as it stands in the text) and the lines
\* after it up to the next marker line, so lines before the first marker line
\* are in no section.
C18_SectionPerMarkerKey ==
    Parsed =>
        /\ DOMAIN call.result.sections = {Strip(ReceivedText[i]) : i \in Markers}
        /\ \A i \in Markers :
              (\A j \in Markers : j > i => Strip(ReceivedText[j]) # Strip(ReceivedText[i]))
              => call.result.sections[Strip(ReceivedText[i])] = Block(i)

C18_Witness ==
    /\ Parsed
    /\ ReceivedText = << <<"f">>, <<"1", ".", "A">>, <<"g">>, <<"2", ".", "B">>, <<"f">> >>
    /\ DOMAIN call.result.sections = { <<"1", ".", "A">>, <<"2", ".", "B">> }
    /\ call.result.sections[<<"1", ".", "A">>] = << <<"1", ".", "A">>, <<"g">> >>
    /\ call.result.sections[<<"2", ".", "B">>] = << <<"2", ".", "B">>, <<"f">> >>

\* a line that begins with a number followed by a period
RECURSIVE DigitsThenPeriod(_)
DigitsThenPeriod(s) ==
    /\ Len(s) >= 2
    /\ s[1] \in DigitChars
    /\ s[2] = "." \/ DigitsThenPeriod(Tail(s))

\* C19: the lines that start a section are exactly the lines that begin with
\* a number of any length followed by a period.
C19_AnyLengthNumberIsMarker ==
    Parsed =>
        DOMAIN call.result.sections =
            {Strip(ReceivedText[i]) : i \in {j \in 1 .. Len(ReceivedText) :
                                             DigitsThenPeriod(Strip(ReceivedText[j]))}}

\* C29: a generate_commander_deck_data call that fails (bad parameters, a
\* failed commander lookup, a commander that is not eligible or any other rules
\* violation) never gathers data: no recommendation, combo or ruling request is
\* made, no accessor is called and no cache populated, the only requests are
\* commander lookups, and a failed lookup is the last request of the call.
C29_FailureGathersNothing ==
    (deck.phase # "none"
        /\ \/ BadParams
           \/ \E i \in 1 .. Len(deck.result.commanders) : Ineligible(deck.result.commanders[i])
           \/ deck.phase = "done" /\ ~deck.result.valid)
    => /\ deck.phase = "done"
       /\ ~deck.result.valid
       /\ deck.result.data = <<>>
       /\ \A d \in Datasets : caches[d] = None /\ calls[d] = 0 /\ fetch_count[d] = 0
       /\ last_api_call_time["commanderspellbook"] = 0
       /\ requests <= Len(deck.commanders)
       /\ (deck.result.has_error /\ ~BadParams) => requests = Len(deck.cards) + 1

C29_Witness ==
    /\ deck.phase = "done"
    /\ deck.commanders = <<"Thrasios", "Unknown">>
    /\ deck.result.has_error
    /\ requests = 2

\* C30: the partner_type recorded for a commander whose oracle text says
\* "Partner with <name>" is "Partner with", not the generic "Partner".
C30_PartnerWithRecorded ==
    \A i \in 1 .. Len(deck.result.commanders) :
        SaysPartnerWith(deck.result.commanders[i].oracle_text)
        => deck.result.commanders[i].partner_type = <<"Partner", "with">>

\* the requests that go to scryfall, commanderspellbook, archidekt or moxfield
\* (the rules text and the EDHREC lists come from hosts that are not rate
\* limited), and the name their rate_limit_api_call is made for
RateLimitedOps ==
    {"banned", "gc_card", "deck_card", "client", "banned_page", "gc_lookup",
     "rec_card", "rec_price"}

UpstreamOf(op, tool) == IF op = "client" THEN RateLimitName(tool) ELSE "scryfall"

FirstView(views, name) == CHOOSE i \in 1 .. Len(views) :
    views[i].name = name /\ \A j \in 1 .. i - 1 : views[j].name # name

GcSucceeded == call.tool = "game_changers" /\ call.phase = "done" /\ call.result.error = ""

\* C26: a successful game-changer list holds every distinct non-empty card
\* name of the upstream list exactly once, each entry built from the first
\* view bearing its name, in descending order of num_decks; the list of
\* names follows the same order and the total is its length.
C26_FirstOccurrenceSortedByDecks ==
    GcSucceeded =>
        LET items == call.result.items
            views == call.seen
        IN  /\ {items[i].name : i \in 1 .. Len(items)}
                  = {views[j].name : j \in 1 .. Len(views)} \ {""}
            /\ \A i, k \in 1 .. Len(items) : items[i].name = items[k].name => i = k
            /\ \A i \in 1 .. Len(items) :
                  /\ items[i].sanitized = FirstView(views, items[i].name)
                  /\ items[i].num_decks = views[items[i].sanitized].num_decks
            /\ \A i \in 1 .. Len(items) - 1 : items[i].num_decks >= items[i + 1].num_decks
            /\ call.result.names = [i \in 1 .. Len(items) |-> items[i].name]
            /\ call.result.total = Len(items)

\* a name listed twice with different counts, and a second name between them
C26_Witness ==
    /\ GcSucceeded
    /\ Len(call.seen) = 3 /\ call.seen[1].name = "A" /\ call.seen[3].name = "A"
    /\ call.seen[1].num_decks = 1 /\ call.seen[3].num_decks = 2
    /\ call.seen[2] = [name |-> "B", num_decks |-> 2]
    /\ call.result.names = <<"B", "A">>

\* ---- C21
RecSucceeded == call.tool = "recommend" /\ call.phase = "done" /\ call.result.error = ""

\* the entries list l contributes when it is read: its first ten if its header matches
Take(l) ==
    IF HeaderMatches(call.seen[l].header)
    THEN Min(Len(call.seen[l].cardviews), 10) ELSE 0

RECURSIVE TakenBefore(_)
TakenBefore(l) == IF l <= 1 THEN 0 ELSE TakenBefore(l - 1) + Take(l - 1)

FirstMatching(l) ==
    HeaderMatches(call.seen[l].header)
        /\ \A k \in 1 .. l - 1 : ~HeaderMatches(call.seen[k].header)

ItemNames == {call.result.items[i].name : i \in 1 .. Len(call.result.items)}

ViewOf(name) == call.seen[name[1]].cardviews[name[2]]

TopCardsSorted ==
    /\ Len(call.result.items) <= 10
    /\ \A i \in 1 .. Len(call.result.items) - 1 :
          call.result.items[i].num_decks >= call.result.items[i + 1].num_decks

\* C21 as stated: the entries come from the first matching subsection only,
\* at most 10 are collected, top_cards is sorted in non-increasing num_decks
\* order with at most 10 entries, and total_recommendations is the number
\* collected.
C21_FirstMatchingSectionOnly ==
    RecSucceeded =>
        /\ \A name \in ItemNames : FirstMatching(name[1])
        /\ call.result.total <= 10
        /\ TopCardsSorted
        /\ call.result.total = Cardinality(ItemNames)

\* the entries collected: the first ten of every matching subsection that is
\* read before ten entries have been collected
CollectedNames ==
    {name \in UNION {{<<l, p>> : p \in 1 .. Take(l)} : l \in 1 .. Len(call.seen)} :
        TakenBefore(name[1]) < 10}

\* C21 amended: entries are collected from each matching subsection in source
\* order, at most 10 from each, until a subsection ends with 10 or more
\* collected (so at most 19); top_cards holds the 10 collected entries with
\* the highest num_decks (all of them when fewer), in non-increasing num_decks
\* order, and total_recommendations is the number collected, which can
\* exceed 10.
C21_TopTenOfMatchingSections ==
    RecSucceeded =>
        /\ ItemNames \subseteq CollectedNames
        /\ \A i, k \in 1 .. Len(call.result.items) :
              call.result.items[i].name = call.result.items[k].name => i = k
        /\ \A i \in 1 .. Len(call.result.items) :
              call.result.items[i].num_decks = ViewOf(call.result.items[i].name).num_decks
        /\ call.result.total = Cardinality(CollectedNames)
        /\ call.result.total <= 19
        /\ Len(call.result.items) = Min(call.result.total, 10)
        /\ TopCardsSorted
        /\ \A name \in CollectedNames \ ItemNames :
              \A i \in 1 .. Len(call.result.items) :
                 ViewOf(name).num_decks <= call.result.items[i].num_decks

\* a matching subsection of 4 entries is followed by one of 11: 14 are
\* collected and the ten returned come from both
C21_Witness ==
    /\ RecSucceeded
    /\ Len(call.seen) = 2 /\ Take(1) = 4 /\ Len(call.seen[2].cardviews) = 11
    /\ call.result.total = 14 /\ Len(call.result.items) = 10
    /\ \E a, b \in ItemNames : a[1] = 1 /\ b[1] = 2

\* ---- C27
Names(cards) == [i \in 1 .. Len(cards) |-> cards[i].name]

InLoop == call.phase \in {"enrich", "pricing"}

\* requests issued by the call before its loop: the EDHREC list, or the
\* commander's card and one or two EDHREC pages
BeforeLoop == IF call.tool = "game_changers" THEN {1} ELSE {2, 3}

OneLookupPerEntry ==
    /\ InLoop =>
          /\ call.stage \in 1 .. Len(call.result.items)
          /\ Len(call.lookups) = call.stage - 1
          /\ task[ClientTask].pc \in {"sleep", "request"}
          /\ task[ClientTask].op \in {"gc_lookup", "rec_price"}
          /\ requests - Len(call.lookups)
                - (IF task[ClientTask].pc = "request" THEN 1 ELSE 0) \in BeforeLoop
    /\ (GcSucceeded \/ RecSucceeded) => Len(call.lookups) = Len(call.result.items)

\* the end of a lookup, with whatever outcome
LookupOver == InLoop /\ task[ClientTask].pc = "request" /\ task'[ClientTask] # task[ClientTask]

EntryAfter(entry, ok) ==
    IF call.tool = "game_changers"
    THEN [entry EXCEPT !.enriched = ok]
    ELSE [entry EXCEPT !.prices = IF ok THEN "priced" ELSE "None"]

C28_GatherWithoutContext ==
    [][(deck.phase = "commanders" /\ task[DeckTask].pc = "ready") => UNCHANGED cachest]_vars

\* ---- C22
SearchDone == call.tool = "search_rules" /\ call.phase = "done"

\* the sections a search must return when `by_section` and `by_keyword` say
\* which of its two arguments count as given
Expected(by_section, by_keyword) ==
    {k \in DOMAIN call.seen :
        \/ by_section /\ StartsWith(k, call.arg[1].text)
        \/ by_keyword /\ \E i \in 0 .. Len(call.seen[k]) - Len(call.arg[2].text) :
               \A j \in 1 .. Len(call.arg[2].text) :
                  Lower(<<call.seen[k][i + j]>>) = Lower(<<call.arg[2].text[j]>>)}

SearchResultIs(expected) ==
    IF returned.error
    THEN call.result = Failed(call.result.error) /\ call.result.error # ""
    ELSE /\ call.result.error = ""
         /\ DOMAIN call.result.sections = expected
         /\ \A k \in expected : call.result.sections[k] = call.seen[k]
         /\ call.result.total = Cardinality(expected)

\* C22 as stated: the results are the cached sections whose key starts with
\* the section argument when one is passed, or whose text contains the
\* keyword argument (ignoring case) when one is passed; matches is their
\* number; an error payload gives an error object only.
C22_FilterByAnyGivenArgument ==
    SearchDone => SearchResultIs(Expected(call.arg[1].given, call.arg[2].given))

\* C22 amended: an argument counts only when it is a non-empty string; an
\* empty section or keyword selects nothing, like an absent one.
C22_FilterByNonEmptyArgument ==
    SearchDone => SearchResultIs(Expected(call.arg[1].given /\ call.arg[1].text # <<>>,
                                          call.arg[2].given /\ call.arg[2].text # <<>>))

\* section "1" selects the keys "1." and "1.1", keyword "MA" selects the key
\* "2." whose text is "Ma"
C22_Witness ==
    /\ SearchDone /\ ~returned.error
    /\ call.arg = <<Given(<<"1">>), Given(<<"M", "A">>)>>
    /\ DOMAIN call.seen = RuleKeys
    /\ call.seen[<<"2", ".">>] = <<"M", "a">> /\ call.seen[<<"1", ".">>] = <<"x">>
    /\ call.result.total = 3

\* ---- C23
Imported(tool) == call.tool = tool /\ call.phase = "done" /\ call.result.error = ""

CommanderLabels == {"commander", "Commander", "COMMANDER"}

\* the positions of the card entries that bear a commander label, in order
Labelled ==
    {i \in 1 .. Len(call.seen) : Range(call.seen[i].categories) \cap CommanderLabels # {}}

\* C23: fetch_archidekt_deck lists a card in commanders exactly when one of
\* its category labels is "commander" in any letter case, lists it once
\* however many such labels it bears, and lists the commanders in the order
\* of the card entries.
C23_CommanderByLabelOnceInOrder ==
    Imported("archidekt") =>
        LET commanders == call.result.names
        IN  /\ Range(commanders) = Labelled
            /\ Len(commanders) = Cardinality(Labelled)
            /\ \A a, b \in 1 .. Len(commanders) : a < b => commanders[a] < commanders[b]

\* two commanders with a card between them, one of them labelled twice, the
\* other in capitals
C23_Witness ==
    /\ Imported("archidekt") /\ Len(call.seen) = 3
    /\ call.seen[1].categories = <<"Commander", "commander">>
    /\ call.seen[2].categories = <<"Ramp">>
    /\ call.seen[3].categories = <<"Ramp", "COMMANDER">>
    /\ call.result.names = <<1, 3>>

\* ---- C24
\* the sum of the quantities of the returned card entries of the boards in `names`
RECURSIVE ReturnedQuantity(_, _)
ReturnedQuantity(cards, names) ==
    IF cards = <<>> THEN 0
    ELSE (IF Head(cards).board \in names THEN Head(cards).quantity ELSE 0)
            + ReturnedQuantity(Tail(cards), names)

RECURSIVE SeenQuantity(_)
SeenQuantity(n) == IF n = 0 THEN 0 ELSE call.seen[n].quantity + SeenQuantity(n - 1)

CountOf(board_name) ==
    IF board_name \in DOMAIN call.seen THEN call.seen[board_name].count ELSE 0

ArchidektTotal ==
    Imported("archidekt") =>
        /\ Len(call.result.items) = Len(call.seen)
        /\ call.result.total = SeenQuantity(Len(call.seen))

\* C24 as stated: Archidekt's total is the sum of quantity over the returned
\* card entries; Moxfield's total is the number of cards of the mainboard,
\* sideboard and commanders boards without the maybeboard, and equals the sum
\* of the quantities of the entries returned for those three boards.
C24_TotalIsSumOfQuantities ==
    /\ ArchidektTotal
    /\ Imported("moxfield") =>
          /\ call.result.total = CountOf("mainboard") + CountOf("sideboard") + CountOf("commanders")
          /\ call.result.total
                = ReturnedQuantity(call.result.items, {"mainboard", "sideboard", "commanders"})

\* C24 amended: Moxfield's total is the sum of the `count` fields the
\* upstream gives for the mainboard, sideboard and commanders boards (0 for a
\* board it does not give), whatever the card entries of those boards are.
C24_TotalIsSumOfBoardCounts ==
    /\ ArchidektTotal
    /\ Imported("moxfield") =>
          call.result.total = CountOf("mainboard") + CountOf("sideboard") + CountOf("commanders")

\* a mainboard of count 2 with one entry of quantity 1, one commander, and a
\* maybeboard that is not counted
C24_Witness ==
    /\ Imported("moxfield")
    /\ DOMAIN call.seen = {"mainboard", "commanders", "maybeboard"}
    /\ call.seen["mainboard"] = [count |-> 2, cards |-> <<1>>]
    /\ call.seen["commanders"] = [count |-> 1, cards |-> <<1>>]
    /\ call.seen["maybeboard"].count = 2
    /\ call.result.total = 3
====
